---- MODULE Spec2Model ----
(***************************************************************************)
(* One unit of the sound-to-light installation (leader LONG or follower    *)
(* SMALL / SEASHELL): the current firmware, arduino/teensy_code/mySysCtrl.h *)
(* with the last revision of arduino/teensy_code/teensy_code.ino.          *)
(*                                                                         *)
(* The firmware's globals, function statics and elapsedMillis timers are   *)
(* the fields of the record `unit`.  Every C function is an operator from  *)
(* a unit record to a unit record.  A control-loop iteration is the three  *)
(* steps of loop(): statusUpdates, the USB check, leader()/follower().     *)
(* Everything a step writes to the outside (relay pins, Serial3, the audio *)
(* player) is appended, in program order, to unit.out, together with the   *)
(* values of the relay pins and of systemAwake/trackIteration at that      *)
(* moment.  unit.out is cleared when a step starts.                        *)
(*                                                                         *)
(* Characters are one-character strings, C strings are sequences of them.  *)
(* Time advances in quanta of TickMs milliseconds; the delay() calls of    *)
(* the handlers are shorter than a quantum and do not advance the timers.  *)
(***************************************************************************)
EXTENDS Integers, Sequences, FiniteSets, TLC

(* ---------------------------- program constants ------------------------ *)
START_HOUR == 8
END_HOUR == 20
STARTUP_DELAY == 10000
CHECK_INTERVAL == 60000
MSG_BUFFER_SIZE == 512
UPDATE_RATE == 20
STATUS_PERIOD == 1000
SERIAL_CHECK_PERIOD == 10
PWM_FREQ == 25
PWM_FULL == 255
PWM_STEP == 25
\* a float is counted in units of 2^-30: 1.0f, 0.1f, and 0.8 as a float
F32_ONE == 1073741824
F32_MANTISSA == 8388608
VOL_STEP == 107374184
VOL_INIT == 858993472
VOL_MAX == 1073741824
RETRY_INTERVAL == STARTUP_DELAY

CMD_LED_1 == "1"
CMD_LED_2 == "2"
CMD_LED_3 == "3"
CMD_LED_4 == "4"
CMD_HELP == "h"
CMD_WAKEUP == "w"
CMD_PLAY == "p"
CMD_SLEEP == "s"
CMD_STOP == "!"
CMD_REPLAY == "z"
CMD_REPORT == "r"
CMD_VOL_UP == "+"
CMD_VOL_DOWN == "-"
CMD_PWM_UP == ">"
CMD_PWM_DOWN == "<"

MSG_REQUEST_SMALL == <<"s", "m", "a", "l", "l">>
MSG_REQUEST_SEASHELL == <<"s", "e", "a", "s", "h", "e", "l", "l">>

LO_STR == "LONG.WAV"
SM_STR == "SMALL.WAV"
SS_STR == "SEASHELL.WAV"

(* ------------------------------- bounds -------------------------------- *)
\* the time quantum, in milliseconds
TickMs == 30000
\* playback starts explored per wake session
MaxTrack == 2
\* the time between two polls of a follower asked for its status, in ms
ReportMs == 500
\* bytes explored on either side of the message buffer's capacity
MaxExtra == 2

VARIABLES unit, hour, usbRx, linkRx, linkTransit, pc

vars == <<unit, hour, usbRx, linkRx, linkTransit, pc>>

(* ------------------------------ helpers -------------------------------- *)
Min(a, b) == IF a < b THEN a ELSE b
Max(a, b) == IF a > b THEN a ELSE b

\* the spacing of the floats around the magnitude m > 0, in units of 2^-30:
\* the power of two in m, over 2^23
ulpF32(m) ==
  LET p == 2^(CHOOSE k \in 0..30 : 2^k <= m /\ m \div 2 < 2^k)
  IN  IF p > F32_MANTISSA THEN p \div F32_MANTISSA ELSE 1
\* the multiple of q nearest to m, the even one of two equally near
nearestEven(m, q) ==
  IF 2 * (m % q) > q \/ (2 * (m % q) = q /\ (m \div q) % 2 = 1)
  THEN m - (m % q) + q
  ELSE m - (m % q)
\* single precision: x, in units of 2^-30, rounded to the nearest value with
\* a 24-bit significand, ties to the even one
roundF32(x) ==
  IF x = 0 THEN 0
  ELSE IF x < 0 THEN 0 - nearestEven(0 - x, ulpF32(0 - x))
  ELSE nearestEven(x, ulpF32(x))
\* float + float and float - float
addF32(a, b) == roundF32(a + b)
\* a subtraction that adds its operand instead
subF32_adds(a, b) == roundF32(a + b)
subF32(a, b) == roundF32(a - b)

\* an output of the running step, with the pins and flags as they are then
Emit(u, kind, val) ==
  [u EXCEPT !.out = Append(@, [kind |-> kind, val |-> val,
                               rel1 |-> u.rel1, rel2 |-> u.rel2,
                               awake |-> u.systemAwake,
                               track |-> u.trackIteration])]

\* digitalWrite(REL_1, level): the amplifier relay
writeRel1(u, level) == Emit([u EXCEPT !.rel1 = level], "REL_1", <<>>)

\* digitalWrite(REL_2, level): the speaker relay
writeRel2(u, level) == Emit([u EXCEPT !.rel2 = level], "REL_2", <<>>)

\* wavPlayer.stop()
wavStop(u) == Emit([u EXCEPT !.playing = FALSE], "stop", <<>>)

\* wavPlayer.play(FILE_NAME)
wavPlay(u) == Emit([u EXCEPT !.playing = TRUE], "play", <<>>)

(* ------------------------------ ledzCtrl.h ----------------------------- *)
setLedPattern(u, v1, v2, v3, v4) == [u EXCEPT !.led = <<v1, v2, v3, v4>>]

\* displayBinaryCode with the least significant bit on LED_1
displayBinaryCode_lsbFirst(u, code) ==
  IF code >= 0 /\ code <= 15
  THEN setLedPattern(u, code % 2 = 1, (code \div 2) % 2 = 1,
                        (code \div 4) % 2 = 1, (code \div 8) % 2 = 1)
  ELSE u

\* bits[3] is the least significant bit of code, bits[0] the most significant
displayBinaryCode(u, code) ==
  IF code >= 0 /\ code <= 15
  THEN setLedPattern(u, (code \div 8) % 2 = 1, (code \div 4) % 2 = 1,
                        (code \div 2) % 2 = 1, code % 2 = 1)
  ELSE u

(* ------------------------------ mySysCtrl.h ---------------------------- *)
\* setupPlayerID with the two follower pins taken for each other
setupPlayerID_followersSwapped(straps) ==
  IF "LONG" \in straps THEN 0
  ELSE IF "SMALL" \in straps THEN 2
  ELSE IF "SEASHELL" \in straps THEN 1
  ELSE 0

\* the strap pins read high, LONG first; PLAYER_ID is a zero-initialised global
setupPlayerID(straps) ==
  IF "LONG" \in straps THEN 0
  ELSE IF "SMALL" \in straps THEN 1
  ELSE IF "SEASHELL" \in straps THEN 2
  ELSE 0

fileNameOf(id) ==
  IF id = 0 THEN LO_STR ELSE IF id = 1 THEN SM_STR ELSE IF id = 2 THEN SS_STR ELSE ""

\* startupSequence declaring the system awake before it switches the relays
startupSequence_awakeFirst(u) ==
  IF ~u.systemAwake
  THEN LET a == Emit([u EXCEPT !.systemAwake = TRUE], "awake", <<>>)
           b == writeRel1(a, TRUE)
           c == writeRel2(b, TRUE)
       IN  Emit([c EXCEPT !.trackIteration = 0], "track", <<>>)
  ELSE u

\* startupSequence without its test of systemAwake
startupSequence_unguarded(u) ==
  LET a == writeRel1(u, TRUE)
      b == writeRel2(a, TRUE)
      c == Emit([b EXCEPT !.systemAwake = TRUE], "awake", <<>>)
  IN  Emit([c EXCEPT !.trackIteration = 0], "track", <<>>)

startupSequence(u) ==
  IF ~u.systemAwake
  THEN LET a == writeRel1(u, TRUE)
           b == writeRel2(a, TRUE)
           c == Emit([b EXCEPT !.systemAwake = TRUE], "awake", <<>>)
       IN  Emit([c EXCEPT !.trackIteration = 0], "track", <<>>)
  ELSE u

\* shutDownSequence leaving the amplifier powered
shutDownSequence_speakerOnly(u) ==
  IF u.systemAwake
  THEN LET a == wavStop(u)
           b == [a EXCEPT !.pwmOut = 0]
           c == writeRel2(b, FALSE)
       IN  Emit([c EXCEPT !.systemAwake = FALSE], "awake", <<>>)
  ELSE u

\* shutDownSequence cutting the amplifier before the speaker
shutDownSequence_ampFirst(u) ==
  IF u.systemAwake
  THEN LET a == wavStop(u)
           b == [a EXCEPT !.pwmOut = 0]
           c == writeRel1(b, FALSE)
           d == writeRel2(c, FALSE)
       IN  Emit([d EXCEPT !.systemAwake = FALSE], "awake", <<>>)
  ELSE u

shutDownSequence(u) ==
  IF u.systemAwake
  THEN LET a == wavStop(u)
           b == [a EXCEPT !.pwmOut = 0]
           c == writeRel2(b, FALSE)
           d == writeRel1(c, FALSE)
       IN  Emit([d EXCEPT !.systemAwake = FALSE], "awake", <<>>)
  ELSE u

\* playAudio waiting for the end of the track before it returns
playAudio_blocking(u) ==
  LET a == wavPlay(u)
      b == Emit([a EXCEPT !.trackIteration = @ + 1], "track", <<>>)
  IN  [b EXCEPT !.playbackStatus = TRUE, !.playing = FALSE]

\* playAudio without its count of the start
playAudio_uncounted(u) ==
  [wavPlay(u) EXCEPT !.playbackStatus = TRUE]

playAudio(u) ==
  LET a == wavPlay(u)
      b == Emit([a EXCEPT !.trackIteration = @ + 1], "track", <<>>)
  IN  [b EXCEPT !.playbackStatus = TRUE]

\* Serial3.write(command)
sendSerialCommand(u, command) == Emit(u, "link", <<command>>)

Digit(b) == IF b THEN "1" ELSE "0"

\* ":STATUS|id|temp|awake|playing|pos|len" and println's "\r\n"; the
\* temperature, position and length are readings of the hardware, here the
\* sample reading 23.5 degrees and, when not playing, position 0 of 0
statusMsg(u) ==
  <<":", "S", "T", "A", "T", "U", "S", "|">>
  \o <<IF u.PLAYER_ID = 1 THEN "1" ELSE "2", "|", "2", "3", ".", "5", "|">>
  \o <<Digit(u.systemAwake), "|", Digit(u.playbackStatus), "|">>
  \o (IF u.playing THEN <<"5", "|", "9">> ELSE <<"0", "|", "0">>)

sendStatusToLeader(u) ==
  IF u.PLAYER_ID = 0 THEN u
  ELSE Emit(u, "link", statusMsg(u) \o <<"\r", "\n">>)

\* the LED commands switching their LED on
ToggleLed_switchesOn(u, ledIndex) == [u EXCEPT !.led[ledIndex + 1] = TRUE]

ToggleLed(u, ledIndex) == [u EXCEPT !.led[ledIndex + 1] = ~@]

\* processCommand leaving a running playback alone at REPLAY
processCommand_replayContinues(u0, cmd) ==
  LET u == Emit(u0, "cmd", <<cmd>>) IN
  CASE cmd = CMD_HELP -> u
    [] cmd = CMD_REPORT -> u
    [] cmd = CMD_WAKEUP -> IF ~u.systemAwake THEN startupSequence(u) ELSE u
    [] cmd = CMD_SLEEP -> IF u.systemAwake THEN shutDownSequence(u) ELSE u
    [] cmd = CMD_PLAY -> playAudio(u)
    [] cmd = CMD_REPLAY -> IF u.playing THEN u ELSE playAudio(u)
    [] cmd = CMD_STOP -> wavStop(u)
    [] cmd = CMD_VOL_UP ->
         [u EXCEPT !.audioVolume = Min(addF32(@, VOL_STEP), VOL_MAX)]
    [] cmd = CMD_VOL_DOWN ->
         [u EXCEPT !.audioVolume = Max(subF32(@, VOL_STEP), 0)]
    [] cmd = CMD_PWM_UP ->
         [u EXCEPT !.rangePWM = IF @ + PWM_STEP > PWM_FULL THEN PWM_FULL ELSE @ + PWM_STEP]
    [] cmd = CMD_PWM_DOWN ->
         [u EXCEPT !.rangePWM = IF @ - PWM_STEP < 0 THEN 0 ELSE @ - PWM_STEP]
    [] cmd = CMD_LED_1 -> ToggleLed(u, 0)
    [] cmd = CMD_LED_2 -> ToggleLed(u, 1)
    [] cmd = CMD_LED_3 -> ToggleLed(u, 2)
    [] cmd = CMD_LED_4 -> ToggleLed(u, 3)
    [] OTHER -> u

\* processCommand stopping the player at a character it does not know
processCommand_unknownStops(u0, cmd) ==
  LET u == Emit(u0, "cmd", <<cmd>>) IN
  CASE cmd = CMD_HELP -> u
    [] cmd = CMD_REPORT -> u
    [] cmd = CMD_WAKEUP -> IF ~u.systemAwake THEN startupSequence(u) ELSE u
    [] cmd = CMD_SLEEP -> IF u.systemAwake THEN shutDownSequence(u) ELSE u
    [] cmd = CMD_PLAY -> playAudio(u)
    [] cmd = CMD_REPLAY -> playAudio(wavStop(u))
    [] cmd = CMD_STOP -> wavStop(u)
    [] cmd = CMD_VOL_UP ->
         [u EXCEPT !.audioVolume = Min(addF32(@, VOL_STEP), VOL_MAX)]
    [] cmd = CMD_VOL_DOWN ->
         [u EXCEPT !.audioVolume = Max(subF32(@, VOL_STEP), 0)]
    [] cmd = CMD_PWM_UP ->
         [u EXCEPT !.rangePWM = IF @ + PWM_STEP > PWM_FULL THEN PWM_FULL ELSE @ + PWM_STEP]
    [] cmd = CMD_PWM_DOWN ->
         [u EXCEPT !.rangePWM = IF @ - PWM_STEP < 0 THEN 0 ELSE @ - PWM_STEP]
    [] cmd = CMD_LED_1 -> ToggleLed(u, 0)
    [] cmd = CMD_LED_2 -> ToggleLed(u, 1)
    [] cmd = CMD_LED_3 -> ToggleLed(u, 2)
    [] cmd = CMD_LED_4 -> ToggleLed(u, 3)
    [] OTHER -> wavStop(u)

processCommand(u0, cmd) ==
  LET u == Emit(u0, "cmd", <<cmd>>) IN
  CASE cmd = CMD_HELP -> u
    [] cmd = CMD_REPORT -> u
    [] cmd = CMD_WAKEUP -> IF ~u.systemAwake THEN startupSequence(u) ELSE u
    [] cmd = CMD_SLEEP -> IF u.systemAwake THEN shutDownSequence(u) ELSE u
    [] cmd = CMD_PLAY -> playAudio(u)
    [] cmd = CMD_REPLAY -> playAudio(wavStop(u))
    [] cmd = CMD_STOP -> wavStop(u)
    [] cmd = CMD_VOL_UP ->
         [u EXCEPT !.audioVolume = Min(addF32(@, VOL_STEP), VOL_MAX)]
    [] cmd = CMD_VOL_DOWN ->
         [u EXCEPT !.audioVolume = Max(subF32(@, VOL_STEP), 0)]
    [] cmd = CMD_PWM_UP ->
         [u EXCEPT !.rangePWM = IF @ + PWM_STEP > PWM_FULL THEN PWM_FULL ELSE @ + PWM_STEP]
    [] cmd = CMD_PWM_DOWN ->
         [u EXCEPT !.rangePWM = IF @ - PWM_STEP < 0 THEN 0 ELSE @ - PWM_STEP]
    [] cmd = CMD_LED_1 -> ToggleLed(u, 0)
    [] cmd = CMD_LED_2 -> ToggleLed(u, 1)
    [] cmd = CMD_LED_3 -> ToggleLed(u, 2)
    [] cmd = CMD_LED_4 -> ToggleLed(u, 3)
    [] OTHER -> u

(* --------------------------- message verbs ----------------------------- *)
V_help == <<"h", "e", "l", "p">>
V_report == <<"r", "e", "p", "o", "r", "t">>
V_wakeup == <<"w", "a", "k", "e", "u", "p">>
V_sleep == <<"s", "l", "e", "e", "p">>
V_play == <<"p", "l", "a", "y">>
V_stop == <<"s", "t", "o", "p">>
V_replay == <<"r", "e", "p", "l", "a", "y">>
V_volup == <<"v", "o", "l", "u", "p">>
V_voldown == <<"v", "o", "l", "d", "o", "w", "n">>
V_pwmup == <<"p", "w", "m", "u", "p">>
V_pwmdown == <<"p", "w", "m", "d", "o", "w", "n">>
V_led1 == <<"l", "e", "d", "1">>
V_led2 == <<"l", "e", "d", "2">>
V_led3 == <<"l", "e", "d", "3">>
V_led4 == <<"l", "e", "d", "4">>
STATUS_PREFIX == <<"S", "T", "A", "T", "U", "S", "|">>

\* strncmp(content, prefix, Len(prefix)) == 0
HasPrefix(content, prefix) ==
  Len(content) >= Len(prefix) /\ SubSeq(content, 1, Len(prefix)) = prefix

\* the decimal digits, and the value of one
Digits == <<"0", "1", "2", "3", "4", "5", "6", "7", "8", "9">>
IsDigit(c) == \E d \in 1..10 : Digits[d] = c
DigitValue(c) == (CHOOSE d \in 1..10 : Digits[d] = c) - 1

\* the number the leading digits of s spell, and what follows them
RECURSIVE leadingNumber(_, _)
leadingNumber(s, acc) ==
  IF s = <<>> \/ ~IsDigit(Head(s)) THEN [value |-> acc, rest |-> s]
  ELSE leadingNumber(Tail(s), acc * 10 + DigitValue(Head(s)))

\* the white space the C conversions skip
RECURSIVE skipSpace(_)
skipSpace(s) == IF s # <<>> /\ Head(s) \in {" ", "\t"} THEN skipSpace(Tail(s)) ELSE s

\* the text after an optional sign
Unsigned(s) == IF s # <<>> /\ Head(s) \in {"-", "+"} THEN Tail(s) ELSE s
Negative(s) == s # <<>> /\ Head(s) = "-"

\* an atoi that tells only zero from non-zero
atoi_nonzeroIsOne(tok) ==
  IF leadingNumber(Unsigned(skipSpace(tok)), 0).value # 0 THEN 1 ELSE 0
\* atoi(token): leading white space, an optional sign, then digits up to
\* the first other character; 0 when there is no digit
atoi(tok) ==
  LET s == skipSpace(tok)
      v == leadingNumber(Unsigned(s), 0).value
  IN  IF Negative(s) THEN 0 - v ELSE v

\* strtoul(token, NULL, 10): as atoi reads it; a negated value wraps to
\* 2^32 - v on the 32-bit unsigned long and is written 0 - v here
strtoul(tok) ==
  LET s == skipSpace(tok)
      v == leadingNumber(Unsigned(s), 0).value
  IN  IF Negative(s) THEN 0 - v ELSE v

\* atof(token), in tenths of a degree: the digits before the point and the
\* first digit after it (the reports carry one decimal, "%.1f")
atof(tok) ==
  LET s == skipSpace(tok)
      w == leadingNumber(Unsigned(s), 0)
      frac == IF Len(w.rest) >= 2 /\ w.rest[1] = "." /\ IsDigit(w.rest[2])
              THEN DigitValue(w.rest[2]) ELSE 0
      t == w.value * 10 + frac
  IN  IF Negative(s) THEN 0 - t ELSE t

\* the tokens that strtok(s, "|") and the strtok(NULL, "|") calls after it
\* return: the runs of characters other than '|', empty runs skipped
RECURSIVE strtokAll(_)
strtokAll(s) ==
  IF s = <<>> THEN <<>>
  ELSE IF Head(s) = "|" THEN strtokAll(Tail(s))
  ELSE LET bars == {i \in 1..Len(s) : s[i] = "|"}
           e == IF bars = {} THEN Len(s) + 1
                ELSE CHOOSE i \in bars : \A j \in bars : i <= j
       IN  <<SubSeq(s, 1, e - 1)>> \o strtokAll(SubSeq(s, e + 1, Len(s)))

\* the STATUS branch of processMessage: the fields are taken one token after
\* the other, each only if the one before it was there; fields counts the
\* tokens found, a field that was not found keeps 0 or FALSE
parseStatus(content) ==
  LET tok == strtokAll(SubSeq(content, Len(STATUS_PREFIX) + 1, Len(content)))
      n == Min(Len(tok), 6)
  IN  [fields |-> n,
       followerId |-> IF n >= 1 THEN atoi(tok[1]) ELSE 0,
       followerTemp |-> IF n >= 2 THEN atof(tok[2]) ELSE 0,
       followerAwake |-> n >= 3 /\ atoi(tok[3]) = 1,
       followerPlaying |-> n >= 4 /\ atoi(tok[4]) = 1,
       followerPosition |-> IF n >= 5 THEN strtoul(tok[5]) ELSE 0,
       followerLength |-> IF n >= 6 THEN strtoul(tok[6]) ELSE 0]

\* the report is printed on the console and nothing else is done with it
statusReport(u, content) == Emit(u, "status", <<parseStatus(content)>>)

\* the C string left in the buffer by strtok(content + 7, "|"): the delimiter
\* that ends the first token is overwritten with '\0'
strtokCut(msg, from) ==
  LET starts == {i \in from..Len(msg) : msg[i] # "|"} IN
  IF starts = {} THEN msg
  ELSE LET tokStart == CHOOSE i \in starts : \A j \in starts : i <= j
           ends == {i \in tokStart..Len(msg) : msg[i] = "|"}
       IN  IF ends = {} THEN msg
           ELSE SubSeq(msg, 1, (CHOOSE i \in ends : \A j \in ends : i <= j) - 1)

\* Serial3.end(); delay(250); Serial3.begin(9600)
serial3Restart(u) == Emit(u, "rxoff", <<>>)

\* A status request names one follower; the other one closes its receiver.
\* On the leader neither branch is taken and control flows off the end of a
\* bool function: ub is what the build makes of it, "return" (nothing) or
\* "else" (the last else-if taken as the only remaining case).
statusRequest(u, target, other, ub) ==
  IF u.PLAYER_ID = target THEN sendStatusToLeader(u)
  ELSE IF u.PLAYER_ID = other THEN serial3Restart(u)
  ELSE IF ub = "else" THEN serial3Restart(u)
  ELSE u

\* the C string that processMessage(msg) leaves in the buffer msg points to:
\* only the parsing of a status message writes into it
messageAfter(msg) ==
  LET content == IF msg # <<>> /\ msg[1] = ":" THEN Tail(msg) ELSE msg IN
  IF HasPrefix(content, STATUS_PREFIX)
  THEN strtokCut(msg, Len(msg) - Len(content) + 8)
  ELSE msg

\* processMessage with the two volume verbs exchanged
processMessage_volumeSwapped(u0, msg, ub) ==
  LET u == Emit(u0, "msg", msg)
      content == IF msg # <<>> /\ msg[1] = ":" THEN Tail(msg) ELSE msg
  IN
  IF Len(content) = 0 THEN u
  ELSE IF content = V_help THEN processCommand(u, CMD_HELP)
  ELSE IF content = V_report THEN processCommand(u, CMD_REPORT)
  ELSE IF content = MSG_REQUEST_SEASHELL THEN statusRequest(u, 2, 1, ub)
  ELSE IF content = MSG_REQUEST_SMALL THEN statusRequest(u, 1, 2, ub)
  ELSE IF HasPrefix(content, STATUS_PREFIX) THEN statusReport(u, content)
  ELSE IF content = V_wakeup THEN processCommand(u, CMD_WAKEUP)
  ELSE IF content = V_sleep THEN processCommand(u, CMD_SLEEP)
  ELSE IF content = V_play THEN processCommand(u, CMD_PLAY)
  ELSE IF content = V_stop THEN processCommand(u, CMD_STOP)
  ELSE IF content = V_replay THEN processCommand(u, CMD_REPLAY)
  ELSE IF content = V_volup THEN processCommand(u, CMD_VOL_DOWN)
  ELSE IF content = V_voldown THEN processCommand(u, CMD_VOL_UP)
  ELSE IF content = V_pwmup THEN processCommand(u, CMD_PWM_UP)
  ELSE IF content = V_pwmdown THEN processCommand(u, CMD_PWM_DOWN)
  ELSE IF content = V_led1 THEN processCommand(u, CMD_LED_1)
  ELSE IF content = V_led2 THEN processCommand(u, CMD_LED_2)
  ELSE IF content = V_led3 THEN processCommand(u, CMD_LED_3)
  ELSE IF content = V_led4 THEN processCommand(u, CMD_LED_4)
  ELSE u

\* processMessage sending a status report on
processMessage_statusEchoed(u0, msg, ub) ==
  LET u == Emit(u0, "msg", msg)
      content == IF msg # <<>> /\ msg[1] = ":" THEN Tail(msg) ELSE msg
  IN
  IF Len(content) = 0 THEN u
  ELSE IF content = V_help THEN processCommand(u, CMD_HELP)
  ELSE IF content = V_report THEN processCommand(u, CMD_REPORT)
  ELSE IF content = MSG_REQUEST_SEASHELL THEN statusRequest(u, 2, 1, ub)
  ELSE IF content = MSG_REQUEST_SMALL THEN statusRequest(u, 1, 2, ub)
  ELSE IF HasPrefix(content, STATUS_PREFIX) THEN Emit(statusReport(u, content), "link", msg)
  ELSE IF content = V_wakeup THEN processCommand(u, CMD_WAKEUP)
  ELSE IF content = V_sleep THEN processCommand(u, CMD_SLEEP)
  ELSE IF content = V_play THEN processCommand(u, CMD_PLAY)
  ELSE IF content = V_stop THEN processCommand(u, CMD_STOP)
  ELSE IF content = V_replay THEN processCommand(u, CMD_REPLAY)
  ELSE IF content = V_volup THEN processCommand(u, CMD_VOL_UP)
  ELSE IF content = V_voldown THEN processCommand(u, CMD_VOL_DOWN)
  ELSE IF content = V_pwmup THEN processCommand(u, CMD_PWM_UP)
  ELSE IF content = V_pwmdown THEN processCommand(u, CMD_PWM_DOWN)
  ELSE IF content = V_led1 THEN processCommand(u, CMD_LED_1)
  ELSE IF content = V_led2 THEN processCommand(u, CMD_LED_2)
  ELSE IF content = V_led3 THEN processCommand(u, CMD_LED_3)
  ELSE IF content = V_led4 THEN processCommand(u, CMD_LED_4)
  ELSE u

processMessage(u0, msg, ub) ==
  LET u == Emit(u0, "msg", msg)
      content == IF msg # <<>> /\ msg[1] = ":" THEN Tail(msg) ELSE msg
  IN
  IF Len(content) = 0 THEN u
  ELSE IF content = V_help THEN processCommand(u, CMD_HELP)
  ELSE IF content = V_report THEN processCommand(u, CMD_REPORT)
  ELSE IF content = MSG_REQUEST_SEASHELL THEN statusRequest(u, 2, 1, ub)
  ELSE IF content = MSG_REQUEST_SMALL THEN statusRequest(u, 1, 2, ub)
  ELSE IF HasPrefix(content, STATUS_PREFIX) THEN statusReport(u, content)
  ELSE IF content = V_wakeup THEN processCommand(u, CMD_WAKEUP)
  ELSE IF content = V_sleep THEN processCommand(u, CMD_SLEEP)
  ELSE IF content = V_play THEN processCommand(u, CMD_PLAY)
  ELSE IF content = V_stop THEN processCommand(u, CMD_STOP)
  ELSE IF content = V_replay THEN processCommand(u, CMD_REPLAY)
  ELSE IF content = V_volup THEN processCommand(u, CMD_VOL_UP)
  ELSE IF content = V_voldown THEN processCommand(u, CMD_VOL_DOWN)
  ELSE IF content = V_pwmup THEN processCommand(u, CMD_PWM_UP)
  ELSE IF content = V_pwmdown THEN processCommand(u, CMD_PWM_DOWN)
  ELSE IF content = V_led1 THEN processCommand(u, CMD_LED_1)
  ELSE IF content = V_led2 THEN processCommand(u, CMD_LED_2)
  ELSE IF content = V_led3 THEN processCommand(u, CMD_LED_3)
  ELSE IF content = V_led4 THEN processCommand(u, CMD_LED_4)
  ELSE u

\* the characters that end a framed message
Terminators == {"\n", "\r", ";"}

\* The read loop of receiveSerialMessage and checkUsbMessages: characters
\* are taken from avail while the message is not complete, the write index
\* (Len(buf), 0-based) is below MSG_BUFFER_SIZE - 1 and a character is there.
\* The loop reads the i-th character of avail with the index at
\* Len(buf) + i - 1, so it reads at most room characters; it stops at the
\* first terminator among them, which it stores only if it is ';'.
readMessage(buf, avail) ==
  LET room == MSG_BUFFER_SIZE - 1 - Len(buf)
      n == Min(IF room > 0 THEN room ELSE 0, Len(avail))
      ends == {i \in 1..n : avail[i] \in Terminators}
  IN  IF ends # {}
      THEN LET t == CHOOSE i \in ends : \A j \in ends : i <= j
               read == SubSeq(avail, 1, t - 1)
           IN  [buf |-> buf \o (IF avail[t] = ";" THEN Append(read, ";") ELSE read),
                rest |-> SubSeq(avail, t + 1, Len(avail))]
      ELSE [buf |-> buf \o SubSeq(avail, 1, n),
            rest |-> SubSeq(avail, n + 1, Len(avail))]

\* messageBuffer after the loop and messageBuffer[index] = '\0': buf is the
\* C string, index = Len(buf).  The buffer is cleared before every read
\* loop and read by nothing else, so it is kept in the outputs of the step.
storeMessage(u, buf) == Emit(u, "buffer", buf)

\* receiveSerialMessage(): avail starts with the ':' the caller has peeked.
\* The result is the unit and the characters left in Serial3's buffer.
receiveSerialMessage(u, avail, ub) ==
  LET r == readMessage(<<Head(avail)>>, Tail(avail))
  IN  [u |-> processMessage(storeMessage(u, r.buf), r.buf, ub), rest |-> r.rest]

\* inChar > 32: not a blank and not a control character
Printable(c) == c \notin {"\n", "\r", "\t", " "}

ValidCommands ==
  {CMD_LED_1, CMD_LED_2, CMD_LED_3, CMD_LED_4, CMD_HELP, CMD_WAKEUP, CMD_PLAY,
   CMD_SLEEP, CMD_STOP, CMD_REPLAY, CMD_REPORT, CMD_VOL_UP, CMD_VOL_DOWN,
   CMD_PWM_UP, CMD_PWM_DOWN}

\* checkUsbCommands relaying the character whatever the role
checkUsbCommands_alwaysRelays(u, avail) ==
  LET inChar == Head(avail)
      a == sendSerialCommand(u, inChar)
  IN  IF Printable(inChar)
      THEN (IF inChar \in ValidCommands THEN processCommand(a, inChar) ELSE a)
      ELSE u

\* checkUsbCommands(): one character is read, the leader relays it, a valid
\* command is processed, and the rest of the USB buffer is discarded
checkUsbCommands(u, avail) ==
  LET inChar == Head(avail)
      a == IF u.PLAYER_ID = 0 THEN sendSerialCommand(u, inChar) ELSE u
  IN  IF Printable(inChar)
      THEN (IF inChar \in ValidCommands THEN processCommand(a, inChar) ELSE a)
      ELSE u

\* checkUsbMessages(): avail starts with ':'.  The bytes of a USB transfer
\* are all there within the 250 ms the loop waits for them.
checkUsbMessages(u, avail, ub) ==
  LET r == readMessage(<<":">>, Tail(avail))
      a == processMessage(storeMessage(u, r.buf), r.buf, ub)
      b == IF a.PLAYER_ID = 0 /\ Len(r.buf) > 1
           THEN Emit(a, "link", messageAfter(r.buf)) ELSE a
  IN  [u |-> b, rest |-> r.rest]

\* statusUpdates with the end hour inside the window
statusUpdates_inclusiveEnd(u, currentHour) ==
  LET checkInterval == IF u.initialCheckDone THEN CHECK_INTERVAL ELSE STARTUP_DELAY
      isActive == currentHour >= START_HOUR /\ currentHour <= END_HOUR
      a == IF u.PLAYER_ID = 0 /\ u.sinceCheck > checkInterval
           THEN LET e == Emit([u EXCEPT !.sinceCheck = 0, !.initialCheckDone = TRUE],
                              "eval", <<Digit(isActive), Digit(u.lastActiveState)>>)
                IN  IF isActive # u.lastActiveState
                    THEN LET f == [e EXCEPT !.lastActiveState = isActive] IN
                         IF isActive
                         THEN (IF ~f.systemAwake
                               THEN displayBinaryCode(
                                      startupSequence(sendSerialCommand(f, CMD_WAKEUP)), 15)
                               ELSE f)
                         ELSE (IF f.systemAwake
                               THEN shutDownSequence(sendSerialCommand(f, CMD_SLEEP))
                               ELSE f)
                    ELSE e
           ELSE u
  IN  IF ~a.playing THEN [a EXCEPT !.playbackStatus = FALSE] ELSE a

\* statusUpdates running the relay sequence before the broadcast
statusUpdates_sequenceFirst(u, currentHour) ==
  LET checkInterval == IF u.initialCheckDone THEN CHECK_INTERVAL ELSE STARTUP_DELAY
      isActive == currentHour >= START_HOUR /\ currentHour < END_HOUR
      a == IF u.PLAYER_ID = 0 /\ u.sinceCheck > checkInterval
           THEN LET e == Emit([u EXCEPT !.sinceCheck = 0, !.initialCheckDone = TRUE],
                              "eval", <<Digit(isActive), Digit(u.lastActiveState)>>)
                IN  IF isActive # u.lastActiveState
                    THEN LET f == [e EXCEPT !.lastActiveState = isActive] IN
                         IF isActive
                         THEN (IF ~f.systemAwake
                               THEN displayBinaryCode(
                                      sendSerialCommand(startupSequence(f), CMD_WAKEUP), 15)
                               ELSE f)
                         ELSE (IF f.systemAwake
                               THEN sendSerialCommand(shutDownSequence(f), CMD_SLEEP)
                               ELSE f)
                    ELSE e
           ELSE u
  IN  IF ~a.playing THEN [a EXCEPT !.playbackStatus = FALSE] ELSE a

\* statusUpdates enforcing the schedule at every evaluation
statusUpdates_everyPoll(u, currentHour) ==
  LET checkInterval == IF u.initialCheckDone THEN CHECK_INTERVAL ELSE STARTUP_DELAY
      isActive == currentHour >= START_HOUR /\ currentHour < END_HOUR
      a == IF u.PLAYER_ID = 0 /\ u.sinceCheck > checkInterval
           THEN LET e == Emit([u EXCEPT !.sinceCheck = 0, !.initialCheckDone = TRUE],
                              "eval", <<Digit(isActive), Digit(u.lastActiveState)>>)
                IN  IF TRUE
                    THEN LET f == [e EXCEPT !.lastActiveState = isActive] IN
                         IF isActive
                         THEN (IF ~f.systemAwake
                               THEN displayBinaryCode(
                                      startupSequence(sendSerialCommand(f, CMD_WAKEUP)), 15)
                               ELSE f)
                         ELSE (IF f.systemAwake
                               THEN shutDownSequence(sendSerialCommand(f, CMD_SLEEP))
                               ELSE f)
                    ELSE e
           ELSE u
  IN  IF ~a.playing THEN [a EXCEPT !.playbackStatus = FALSE] ELSE a

\* statusUpdates waking the leader without the broadcast
statusUpdates_silentWake(u, currentHour) ==
  LET checkInterval == IF u.initialCheckDone THEN CHECK_INTERVAL ELSE STARTUP_DELAY
      isActive == currentHour >= START_HOUR /\ currentHour < END_HOUR
      a == IF u.PLAYER_ID = 0 /\ u.sinceCheck > checkInterval
           THEN LET e == Emit([u EXCEPT !.sinceCheck = 0, !.initialCheckDone = TRUE],
                              "eval", <<Digit(isActive), Digit(u.lastActiveState)>>)
                IN  IF isActive # u.lastActiveState
                    THEN LET f == [e EXCEPT !.lastActiveState = isActive] IN
                         IF isActive
                         THEN (IF ~f.systemAwake
                               THEN displayBinaryCode(
                                      startupSequence(f), 15)
                               ELSE f)
                         ELSE (IF f.systemAwake
                               THEN shutDownSequence(sendSerialCommand(f, CMD_SLEEP))
                               ELSE f)
                    ELSE e
           ELSE u
  IN  IF ~a.playing THEN [a EXCEPT !.playbackStatus = FALSE] ELSE a

\* statusUpdates checking the schedule on followers too
statusUpdates_anyUnit(u, currentHour) ==
  LET checkInterval == IF u.initialCheckDone THEN CHECK_INTERVAL ELSE STARTUP_DELAY
      isActive == currentHour >= START_HOUR /\ currentHour < END_HOUR
      a == IF u.sinceCheck > checkInterval
           THEN LET e == Emit([u EXCEPT !.sinceCheck = 0, !.initialCheckDone = TRUE],
                              "eval", <<Digit(isActive), Digit(u.lastActiveState)>>)
                IN  IF isActive # u.lastActiveState
                    THEN LET f == [e EXCEPT !.lastActiveState = isActive] IN
                         IF isActive
                         THEN (IF ~f.systemAwake
                               THEN displayBinaryCode(
                                      startupSequence(sendSerialCommand(f, CMD_WAKEUP)), 15)
                               ELSE f)
                         ELSE (IF f.systemAwake
                               THEN shutDownSequence(sendSerialCommand(f, CMD_SLEEP))
                               ELSE f)
                    ELSE e
           ELSE u
  IN  IF ~a.playing THEN [a EXCEPT !.playbackStatus = FALSE] ELSE a

\* statusUpdates(): the schedule of the leader, then the playback flag.
\* sinceCheck is millis() - lastCheck.
statusUpdates(u, currentHour) ==
  LET checkInterval == IF u.initialCheckDone THEN CHECK_INTERVAL ELSE STARTUP_DELAY
      isActive == currentHour >= START_HOUR /\ currentHour < END_HOUR
      a == IF u.PLAYER_ID = 0 /\ u.sinceCheck > checkInterval
           THEN LET e == Emit([u EXCEPT !.sinceCheck = 0, !.initialCheckDone = TRUE],
                              "eval", <<Digit(isActive), Digit(u.lastActiveState)>>)
                IN  IF isActive # u.lastActiveState
                    THEN LET f == [e EXCEPT !.lastActiveState = isActive] IN
                         IF isActive
                         THEN (IF ~f.systemAwake
                               THEN displayBinaryCode(
                                      startupSequence(sendSerialCommand(f, CMD_WAKEUP)), 15)
                               ELSE f)
                         ELSE (IF f.systemAwake
                               THEN shutDownSequence(sendSerialCommand(f, CMD_SLEEP))
                               ELSE f)
                    ELSE e
           ELSE u
  IN  IF ~a.playing THEN [a EXCEPT !.playbackStatus = FALSE] ELSE a

(* ---------------------------- teensy_code.ino -------------------------- *)
\* writeOutPWM without its timer
writeOutPWM_unthrottled(u, env) ==
  IF env.peakAvail
  THEN Emit([u EXCEPT !.pwmTimer = 0, !.pwmOut = (env.peak * u.rangePWM) \div 100,
                      !.sincePwm = 0], "pwm", <<>>)
  ELSE u

\* writeOutPWM scaling the sample by the full range
writeOutPWM_fullRange(u, env) ==
  IF u.pwmTimer >= PWM_FREQ
  THEN LET a == [u EXCEPT !.pwmTimer = 0] IN
       IF env.peakAvail
       THEN Emit([a EXCEPT !.pwmOut = (env.peak * PWM_FULL) \div 100,
                           !.sincePwm = 0], "pwm", <<>>)
       ELSE a
  ELSE u

\* writeOutPWM(PWM_PIN): env.peakAvail is audioPeak.available(), env.peak
\* the envelope sample in percent of full scale
writeOutPWM(u, env) ==
  IF u.pwmTimer >= PWM_FREQ
  THEN LET a == [u EXCEPT !.pwmTimer = 0] IN
       IF env.peakAvail
       THEN Emit([a EXCEPT !.pwmOut = (env.peak * a.rangePWM) \div 100,
                           !.sincePwm = 0], "pwm", <<>>)
       ELSE a
  ELSE u

\* the display block leaving the PWM output alone when nothing plays
updateOutputs_keepsLevel(u, env) ==
  IF u.updateTimer >= UPDATE_RATE
  THEN LET a == [u EXCEPT !.updateTimer = 0] IN
       IF a.systemAwake
       THEN (IF a.playing
             THEN displayBinaryCode(writeOutPWM(a, env), 8)
             ELSE displayBinaryCode(a, 2))
       ELSE LET b == IF a.playing THEN wavStop(a) ELSE a
            IN  [displayBinaryCode(b, 1) EXCEPT !.pwmOut = 0]
  ELSE u

\* the "update display and PWM output" block of leader() and follower()
updateOutputs(u, env) ==
  IF u.updateTimer >= UPDATE_RATE
  THEN LET a == [u EXCEPT !.updateTimer = 0] IN
       IF a.systemAwake
       THEN (IF a.playing
             THEN displayBinaryCode(writeOutPWM(a, env), 8)
             ELSE [displayBinaryCode(a, 2) EXCEPT !.pwmOut = 0])
       ELSE LET b == IF a.playing THEN wavStop(a) ELSE a
            IN  [displayBinaryCode(b, 1) EXCEPT !.pwmOut = 0]
  ELSE u

\* the retry of leader() firing for the first track only
retryPlayback_firstTrackOnly(u) ==
  IF u.systemAwake /\ ~u.playing /\ u.playbackTimer >= RETRY_INTERVAL /\ u.trackIteration = 0
  THEN playAudio(sendSerialCommand([u EXCEPT !.playbackTimer = 0], CMD_PLAY))
  ELSE u

\* the retry of leader() without its interval
retryPlayback_untimed(u) ==
  IF u.systemAwake /\ ~u.playing
  THEN playAudio(sendSerialCommand([u EXCEPT !.playbackTimer = 0], CMD_PLAY))
  ELSE u

\* the "check for playback" block of leader()
retryPlayback(u) ==
  IF u.systemAwake /\ ~u.playing /\ u.playbackTimer >= RETRY_INTERVAL
  THEN playAudio(sendSerialCommand([u EXCEPT !.playbackTimer = 0], CMD_PLAY))
  ELSE u

\* leader(): rx is what Serial3 holds; the result is the unit and what
\* Serial3 still holds
leader(u, rx, env) ==
  LET a == retryPlayback(u)
      b == IF a.serialCheckTimer >= SERIAL_CHECK_PERIOD
           THEN LET a1 == [a EXCEPT !.serialCheckTimer = 0] IN
                IF rx # <<>>
                THEN (IF Head(rx) = ":"
                      THEN receiveSerialMessage(a1, rx, env.ub)
                      ELSE [u |-> a1, rest |-> <<>>])
                ELSE [u |-> a1, rest |-> rx]
           ELSE [u |-> a, rest |-> rx]
  IN  [u |-> updateOutputs(b.u, env), rest |-> b.rest]

\* follower() without the loop that clears Serial3 after the dispatch
follower_keepsRest(u, rx, env) ==
  LET b == IF u.commandCheckTimer >= SERIAL_CHECK_PERIOD
           THEN LET a1 == [u EXCEPT !.commandCheckTimer = 0] IN
                IF rx # <<>>
                THEN (IF Head(rx) = ":"
                      THEN receiveSerialMessage(a1, rx, env.ub)
                      ELSE [u |-> processCommand(a1, Head(rx)), rest |-> Tail(rx)])
                ELSE [u |-> a1, rest |-> rx]
           ELSE [u |-> u, rest |-> rx]
  IN  [u |-> updateOutputs(b.u, env), rest |-> b.rest]

\* follower()
follower(u, rx, env) ==
  LET b == IF u.commandCheckTimer >= SERIAL_CHECK_PERIOD
           THEN LET a1 == [u EXCEPT !.commandCheckTimer = 0] IN
                IF rx # <<>>
                THEN [u |-> IF Head(rx) = ":"
                            THEN receiveSerialMessage(a1, rx, env.ub).u
                            ELSE processCommand(a1, Head(rx)),
                      rest |-> <<>>]
                ELSE [u |-> a1, rest |-> rx]
           ELSE [u |-> u, rest |-> rx]
  IN  [u |-> updateOutputs(b.u, env), rest |-> b.rest]

\* the unit as setup() leaves it: LEDs, relays and PWM written low, the
\* global state reset; the timers and the statics of statusUpdates() start;
\* straps are the strap pins that are wired high, which setupPlayerID reads
PowerOn ==
  [straps |-> {}, PLAYER_ID |-> 0, FILE_NAME |-> "", systemAwake |-> FALSE,
   playbackStatus |-> FALSE, trackIteration |-> 0, audioVolume |-> VOL_INIT,
   rangePWM |-> PWM_FULL, led |-> <<FALSE, FALSE, FALSE, FALSE>>,
   rel1 |-> FALSE, rel2 |-> FALSE, pwmOut |-> 0, playing |-> FALSE,
   lastActiveState |-> FALSE, initialCheckDone |-> FALSE, sinceCheck |-> 0,
   statusTimer |-> 0, playbackTimer |-> 0, serialCheckTimer |-> 0,
   commandCheckTimer |-> 0, updateTimer |-> 0, pwmTimer |-> 0,
   sincePwm |-> PWM_FREQ, out |-> <<>>]

setup(straps) ==
  LET id == setupPlayerID(straps)
      a == [PowerOn EXCEPT !.straps = straps, !.PLAYER_ID = id,
                           !.FILE_NAME = fileNameOf(id)]
      b == writeRel2(writeRel1(a, FALSE), FALSE)
  IN  [b EXCEPT !.systemAwake = FALSE, !.playbackStatus = FALSE, !.trackIteration = 0]

(* ------------------------------ environment ---------------------------- *)
\* a framed message ended by a newline, and one ended by a semicolon
Line(verb) == <<":">> \o verb \o <<"\n">>
Semi(verb) == <<":">> \o verb \o <<";">>
\* the outcomes of flowing off the end of processMessage
UBOutcomes == {"return", "else"}
\* envelope samples, in percent
PeakLevels == {0, 100}
Samples == {[peakAvail |-> FALSE, peak |-> 0]}
             \cup {[peakAvail |-> TRUE, peak |-> p] : p \in PeakLevels}
Queries == {Line(MSG_REQUEST_SMALL), Line(MSG_REQUEST_SEASHELL)}
\* the choices that can matter to a step reading the input in
UBFor(in) == IF in \in Queries THEN UBOutcomes ELSE {"return"}
SamplesFor(u) == IF u.systemAwake THEN Samples ELSE {[peakAvail |-> FALSE, peak |-> 0]}
\* clock hours on both sides of both ends of the active window
Hours == {START_HOUR - 1, START_HOUR, END_HOUR - 1, END_HOUR}
\* one strap pin high
OneHot == {{"LONG"}, {"SMALL"}, {"SEASHELL"}}


\* inputs that start or end playback are explored while trackIteration is
\* below MaxTrack; waking and sleeping are explored always
CapSafe == {<<CMD_WAKEUP>>, <<CMD_SLEEP>>, Line(V_wakeup), Line(V_sleep), <<>>}
InputOK(in) == unit.trackIteration < MaxTrack \/ in \in CapSafe

HasKind(u, kind) == \E i \in 1..Len(u.out) : u.out[i].kind = kind

Fresh(u) == [u EXCEPT !.out = <<>>]

\* loop(): statusUpdates() once statusTimer has reached a second
LoopStatus ==
  /\ pc = "status"
  /\ unit' = IF unit.statusTimer >= STATUS_PERIOD
             THEN [statusUpdates(Fresh(unit), hour) EXCEPT !.statusTimer = 0]
             ELSE Fresh(unit)
  /\ pc' = "usb"
  /\ UNCHANGED <<hour, usbRx, linkRx, linkTransit>>

\* loop(): the USB check; in is what has arrived on USB since the last one
LoopUsbIn(Inputs) ==
  /\ pc = "usb"
  /\ \E in \in (IF usbRx = <<>> THEN Inputs \cup {<<>>} ELSE {<<>>}) :
     \E ub \in UBFor(usbRx \o in) :
       /\ InputOK(in)
       /\ LET avail == usbRx \o in
              r == IF avail = <<>> THEN [u |-> Fresh(unit), rest |-> <<>>]
                   ELSE IF Head(avail) = ":"
                        THEN checkUsbMessages(Fresh(unit), avail, ub)
                        ELSE [u |-> checkUsbCommands(Fresh(unit), avail), rest |-> <<>>]
          IN  /\ unit' = r.u
              /\ usbRx' = r.rest
              /\ linkRx' = IF HasKind(r.u, "rxoff") THEN <<>> ELSE linkRx
  /\ pc' = "role"
  /\ UNCHANGED <<hour, linkTransit>>

\* how much of a transmission can have arrived when a step reads Serial3.
\* A framed message arrives in two bursts at most: the one that begins with
\* its ':' ends up to MaxExtra bytes from its start, from its end, or from
\* the place where the message buffer is full; the rest arrives whole.
Cuts(stream) ==
  IF stream # <<>> /\ Head(stream) = ":"
  THEN {k \in 0..Len(stream) :
          IF k <= MaxExtra THEN TRUE
          ELSE IF k >= Len(stream) - MaxExtra THEN TRUE
          ELSE k >= MSG_BUFFER_SIZE - 1 - MaxExtra /\ k <= MSG_BUFFER_SIZE - 1 + MaxExtra}
  ELSE {Len(stream)}

\* what Serial3 receives before and during a step: a new transmission when
\* none is under way, of which the first k bytes have arrived (all of them
\* unless slow)
LoopRoleIn(id, Inputs, slow) ==
  /\ pc = "role"
  /\ unit.PLAYER_ID \in id
  /\ \E in \in (IF linkRx = <<>> /\ linkTransit = <<>> THEN Inputs \cup {<<>>} ELSE {<<>>}) :
     \E sample \in SamplesFor(unit), ub \in UBFor(linkRx \o linkTransit \o in) :
       /\ InputOK(in)
       /\ LET stream == linkTransit \o in IN
          \E k \in (IF slow THEN Cuts(stream) ELSE {Len(stream)}) :
            LET rx == linkRx \o SubSeq(stream, 1, k)
                env == [ub |-> ub, peakAvail |-> sample.peakAvail, peak |-> sample.peak]
                r == IF unit.PLAYER_ID = 0 THEN leader(Fresh(unit), rx, env)
                     ELSE follower(Fresh(unit), rx, env)
            IN  /\ unit' = r.u
                /\ linkRx' = IF HasKind(r.u, "rxoff") THEN <<>> ELSE r.rest
                /\ linkTransit' = SubSeq(stream, k + 1, Len(stream))
  /\ pc' = "status"
  /\ UNCHANGED <<hour, usbRx>>

\* TickMs milliseconds pass between two iterations of loop(); a timer past
\* its threshold is not counted further
CapBy(t, threshold, ms) == Min(t + ms, threshold + ms)
Cap(t, threshold) == CapBy(t, threshold, TickMs)

\* ms milliseconds pass: the elapsedMillis timers count on, and so does
\* sincePwm, the time since the last envelope-driven write of the PWM pin
ElapseBy(u, ms) ==
  [u EXCEPT !.sinceCheck = CapBy(@, CHECK_INTERVAL, ms),
            !.statusTimer = CapBy(@, STATUS_PERIOD, ms),
            !.playbackTimer = CapBy(@, RETRY_INTERVAL, ms),
            !.serialCheckTimer = CapBy(@, SERIAL_CHECK_PERIOD, ms),
            !.commandCheckTimer = CapBy(@, SERIAL_CHECK_PERIOD, ms),
            !.updateTimer = CapBy(@, UPDATE_RATE, ms),
            !.pwmTimer = CapBy(@, PWM_FREQ, ms),
            !.sincePwm = CapBy(@, PWM_FREQ, ms)]

Elapse(u) == ElapseBy(u, TickMs)

Tick ==
  /\ pc = "status"
  /\ unit' = Elapse(Fresh(unit))
  /\ [unit' EXCEPT !.out = unit.out] # unit
  /\ UNCHANGED <<hour, usbRx, linkRx, linkTransit, pc>>

\* the track ends between two iterations of loop(): wavPlayer.isPlaying()
\* becomes false
TrackEnd ==
  /\ pc = "status"
  /\ unit.playing
  /\ unit.trackIteration < MaxTrack
  /\ unit' = [Fresh(unit) EXCEPT !.playing = FALSE]
  /\ UNCHANGED <<hour, usbRx, linkRx, linkTransit, pc>>

\* the real-time clock shows another hour
RtcTo(hours) ==
  /\ pc = "status"
  /\ unit.PLAYER_ID = 0
  /\ \E h \in hours \ {hour} : hour' = h
  /\ unit' = Fresh(unit)
  /\ UNCHANGED <<usbRx, linkRx, linkTransit, pc>>

RtcChange == RtcTo(Hours)

(* ---------------- the unit with its console and its link --------------- *)
ControlCmds == {<<CMD_WAKEUP>>, <<CMD_SLEEP>>, <<CMD_PLAY>>, <<CMD_STOP>>, <<CMD_REPLAY>>}
UsbInputs == ControlCmds \cup {Line(V_sleep)}
FollowerLinkInputs == ControlCmds \cup {Line(V_wakeup), Line(V_play), Semi(V_play)}
LeaderLinkInputs == {statusMsg([PLAYER_ID |-> 1, systemAwake |-> TRUE,
                                playbackStatus |-> FALSE, playing |-> FALSE])
                       \o <<"\r", "\n">>,
                     <<CMD_SLEEP>>}

Init ==
  /\ \E straps \in OneHot : unit = setup(straps)
  /\ hour \in (IF unit.PLAYER_ID = 0 THEN Hours ELSE {START_HOUR})
  /\ usbRx = <<>>
  /\ linkRx = <<>>
  /\ linkTransit = <<>>
  /\ pc = "status"

LoopUsb == LoopUsbIn(UsbInputs)
LoopLeader == LoopRoleIn({0}, LeaderLinkInputs, FALSE)
LoopFollower == LoopRoleIn({1, 2}, FollowerLinkInputs, FALSE)

Next == LoopStatus \/ LoopUsb \/ LoopLeader \/ LoopFollower \/ Tick \/ TrackEnd \/ RtcChange

Spec == Init /\ [][Next]_vars

(* ------------- the leader alone, with a fair scheduler ------------------ *)
\* loop() runs for ever and time passes: the loop steps are weakly fair,
\* and Tick, which is enabled between two iterations only, strongly fair
\* the first hour of the window and the first hour after it
EdgeHours == {START_HOUR, END_HOUR}

InitRetry ==
  /\ unit = setup({"LONG"})
  /\ hour \in EdgeHours
  /\ usbRx = <<>>
  /\ linkRx = <<>>
  /\ linkTransit = <<>>
  /\ pc = "status"

RetryUsbInputs == {<<CMD_SLEEP>>, <<CMD_STOP>>}
RtcEdge == RtcTo(EdgeHours)
RetryUsb == LoopUsbIn(RetryUsbInputs)
QuietLeader == LoopRoleIn({0}, {}, FALSE)
NextRetry == LoopStatus \/ RetryUsb \/ QuietLeader \/ Tick \/ TrackEnd \/ RtcEdge
LoopRetry == LoopStatus \/ RetryUsb \/ QuietLeader
SpecRetry == InitRetry /\ [][NextRetry]_vars /\ WF_vars(LoopRetry) /\ SF_vars(Tick)

(* ------- the boot scenario: leader strap, hour inside the window -------- *)
WindowHours == {h \in Hours : h >= START_HOUR /\ h < END_HOUR}

InitBoot ==
  /\ unit = setup({"LONG"})
  /\ hour \in WindowHours
  /\ usbRx = <<>>
  /\ linkRx = <<>>
  /\ linkTransit = <<>>
  /\ pc = "status"

\* the clock moves inside the window
RtcInWindow == RtcTo(WindowHours)

QuietUsb == LoopUsbIn({})
NextBoot == LoopStatus \/ QuietUsb \/ QuietLeader \/ Tick \/ TrackEnd \/ RtcInWindow
LoopBoot == LoopStatus \/ QuietUsb \/ QuietLeader
SpecBoot == InitBoot /\ [][NextBoot]_vars /\ WF_vars(LoopBoot) /\ SF_vars(Tick)

(* ------ one dispatch, of a command byte or of a message, anywhere ------- *)
Verbs ==
  {V_wakeup, V_sleep, V_play, V_stop, V_replay, V_volup, V_voldown, V_pwmup,
   V_pwmdown, V_led1, V_led2, V_led3, V_led4, V_report, V_help}
\* the command table of processCommand, by name
VerbCmd(v) ==
  CASE v = V_wakeup -> CMD_WAKEUP [] v = V_sleep -> CMD_SLEEP
    [] v = V_play -> CMD_PLAY [] v = V_stop -> CMD_STOP
    [] v = V_replay -> CMD_REPLAY [] v = V_volup -> CMD_VOL_UP
    [] v = V_voldown -> CMD_VOL_DOWN [] v = V_pwmup -> CMD_PWM_UP
    [] v = V_pwmdown -> CMD_PWM_DOWN [] v = V_led1 -> CMD_LED_1
    [] v = V_led2 -> CMD_LED_2 [] v = V_led3 -> CMD_LED_3
    [] v = V_led4 -> CMD_LED_4 [] v = V_report -> CMD_REPORT
    [] v = V_help -> CMD_HELP
DispatchInputs ==
  {Line(v) : v \in Verbs} \cup {<<VerbCmd(v)>> : v \in Verbs} \cup Queries
\* volume and PWM range at their initial values and at their ends
DispatchLevels ==
  {[vol |-> VOL_INIT, pwm |-> PWM_FULL], [vol |-> 0, pwm |-> 0],
   [vol |-> VOL_MAX, pwm |-> PWM_STEP]}
\* the LEDs as setup() leaves them and as displayBinaryCode(8) leaves them
DispatchLeds == {<<FALSE, FALSE, FALSE, FALSE>>, <<TRUE, FALSE, FALSE, FALSE>>}
\* units some iterations of loop() after setup(): awake or asleep, playing
\* or idle, every timer past its threshold
DispatchUnits ==
  {Elapse(Fresh([setup(straps) EXCEPT
             !.systemAwake = aw, !.rel1 = aw, !.rel2 = aw,
             !.playing = pl, !.playbackStatus = pl,
             !.trackIteration = IF pl THEN 1 ELSE 0,
             !.audioVolume = lv.vol, !.rangePWM = lv.pwm, !.led = ld])) :
     straps \in OneHot, aw \in BOOLEAN, pl \in BOOLEAN,
     lv \in DispatchLevels, ld \in DispatchLeds}

\* the input is in the USB buffer, or in Serial3's buffer of a follower
InitDispatch ==
  /\ unit \in DispatchUnits
  /\ hour = START_HOUR
  /\ \E in \in DispatchInputs :
     \E place \in {<<in, <<>>>>} \cup (IF unit.PLAYER_ID # 0 THEN {<<<<>>, in>>} ELSE {}) :
       usbRx = place[1] /\ linkRx = place[2]
  /\ linkTransit = <<>>
  /\ pc = "usb"

QuietFollower == LoopRoleIn({1, 2}, {}, FALSE)
NextDispatch == QuietUsb \/ QuietLeader \/ QuietFollower
SpecDispatch == InitDispatch /\ [][NextDispatch]_vars

(* --------- long unterminated messages, arriving byte after byte --------- *)
\* a message of n bytes without a terminator
Long(n) == [i \in 1..n |-> IF i = 1 THEN ":" ELSE "x"]
\* the length of the overlong message of the scenario
ScenarioBytes == 600
BufLengths ==
  {n \in 2..ScenarioBytes :
     IF n = ScenarioBytes THEN TRUE
     ELSE n >= MSG_BUFFER_SIZE - 1 - MaxExtra /\ n <= MSG_BUFFER_SIZE - 1 + MaxExtra}

\* the message is in the USB buffer, or on its way on the link
InitBuf ==
  /\ \E straps \in OneHot : unit = Elapse(setup(straps))
  /\ hour = START_HOUR
  /\ \E n \in BufLengths :
     \E place \in {<<Long(n), <<>>>>, <<<<>>, Long(n)>>} :
       usbRx = place[1] /\ linkTransit = place[2]
  /\ linkRx = <<>>
  /\ pc = "usb"

SlowLeader == LoopRoleIn({0}, {}, TRUE)
SlowFollower == LoopRoleIn({1, 2}, {}, TRUE)
NextBuf == LoopStatus \/ QuietUsb \/ SlowLeader \/ SlowFollower \/ Tick
SpecBuf == InitBuf /\ [][NextBuf]_vars

(* ------------- short framed messages, arriving in two bursts ------------ *)
SlowMessages == {Line(V_sleep), Line(V_wakeup), Semi(V_play), Line(MSG_REQUEST_SMALL)}

\* the message is on its way on the link
InitSlow ==
  /\ \E straps \in OneHot : unit = Elapse(setup(straps))
  /\ hour = START_HOUR
  /\ linkTransit \in SlowMessages
  /\ usbRx = <<>>
  /\ linkRx = <<>>
  /\ pc = "usb"

NextSlow == LoopStatus \/ QuietUsb \/ SlowLeader \/ SlowFollower \/ Tick
SpecSlow == InitSlow /\ [][NextSlow]_vars

(* ------- a follower with several bytes in Serial3 at the same time ------- *)
\* two command bytes, a command byte and a message, two messages
BurstInputs ==
  {<<CMD_PLAY, CMD_SLEEP>>, <<CMD_WAKEUP, CMD_PLAY>>,
   Line(V_wakeup) \o <<CMD_PLAY>>, <<CMD_WAKEUP>> \o Line(V_play),
   Line(V_wakeup) \o Line(V_play)}
FollowerStraps == {{"SMALL"}, {"SEASHELL"}}

\* the bytes arrive before the first check of the link is due
InitBurst ==
  /\ \E straps \in FollowerStraps : unit = setup(straps)
  /\ hour = START_HOUR
  /\ linkRx \in BurstInputs
  /\ usbRx = <<>>
  /\ linkTransit = <<>>
  /\ pc = "status"

NextBurst == LoopStatus \/ QuietUsb \/ QuietFollower \/ Tick
SpecBurst == InitBurst /\ [][NextBurst]_vars

(* ---------------- STATUS reports on the inter-unit link ---------------- *)

\* "%d" and "%lu" of snprintf, for a number that is not negative
RECURSIVE Decimal(_)
Decimal(n) == IF n < 10 THEN <<Digits[n + 1]>>
              ELSE Append(Decimal(n \div 10), Digits[(n % 10) + 1])

\* the report snprintf formats from six values, the temperature in tenths
\* of a degree printed with "%.1f", as println sends it
FormatStatus(f) ==
  <<":">> \o STATUS_PREFIX
  \o Decimal(f.id) \o <<"|">>
  \o Decimal(f.temp \div 10) \o <<".", Digits[(f.temp % 10) + 1], "|">>
  \o Decimal(f.awake) \o <<"|">> \o Decimal(f.playing) \o <<"|">>
  \o Decimal(f.pos) \o <<"|">> \o Decimal(f.len) \o <<"\r", "\n">>

\* the values of the reports on the line: the two followers, two
\* temperatures, flag fields that are 0, 1 or another integer, positions
FlagValues == {0, 1, 2, 10}
StatusFields ==
  [id : {1, 2}, temp : {235, 400}, awake : FlagValues, playing : FlagValues,
   pos : {0, 5}, len : {0, 9}]
StatusLines == {FormatStatus(f) : f \in StatusFields}

\* the units that receive them, awake or asleep, playing or not
StatusUnits ==
  {Elapse(Fresh([setup(straps) EXCEPT
             !.systemAwake = aw, !.rel1 = aw, !.rel2 = aw,
             !.playing = pl, !.playbackStatus = pl,
             !.trackIteration = IF pl THEN 1 ELSE 0])) :
     straps \in OneHot, aw \in BOOLEAN, pl \in BOOLEAN}

\* a report, or for a follower a status request, is in Serial3's buffer
InitStatus ==
  /\ unit \in StatusUnits
  /\ hour = START_HOUR
  /\ usbRx = <<>>
  /\ linkRx \in StatusLines \cup (IF unit.PLAYER_ID # 0 THEN Queries ELSE {})
  /\ linkTransit = <<>>
  /\ pc = "usb"

NextStatus == QuietUsb \/ QuietLeader \/ QuietFollower
SpecStatus == InitStatus /\ [][NextStatus]_vars

(* -------------------- malformed and unknown input ---------------------- *)

\* bytes that are no command, one of them white space
UnknownBytes == {"x", "W", "0", "?", " "}
\* verbs that are in no table: a prefix of one, one in capitals, one with a
\* trailing space, one with a character too many
UnknownVerbs ==
  {<<"f", "o", "o">>, <<"w", "a", "k", "e">>, <<"P", "L", "A", "Y">>,
   <<"s", "l", "e", "e", "p", " ">>, <<"s", "t", "o", "p", "s">>,
   <<"S", "T", "A", "T", "U", "S">>}
\* STATUS messages with fields missing, empty, not numbers, or too many
BadStatus ==
  {STATUS_PREFIX,
   STATUS_PREFIX \o <<"2">>,
   STATUS_PREFIX \o <<"2", "|", "2", "3", ".", "5", "|", "1">>,
   STATUS_PREFIX \o <<"|", "|", "|", "|">>,
   STATUS_PREFIX \o <<"x", "|", "y", "|", "w", "|", "p", "|", "s", "|", "!">>,
   STATUS_PREFIX \o <<"1", "|", "2", "3", ".", "5", "|", "1", "|", "1", "|",
                      "5", "|", "9", "|", "w", "a", "k", "e", "u", "p">>}
MalformedInputs ==
  {<<b>> : b \in UnknownBytes}
  \cup {Line(v) : v \in UnknownVerbs \cup BadStatus}
  \cup {Line(<<>>), <<":">>}

\* the input is in the USB buffer or in Serial3's buffer
InitMalformed ==
  /\ unit \in DispatchUnits
  /\ hour = START_HOUR
  /\ \E in \in MalformedInputs :
     \E place \in {<<in, <<>>>>, <<<<>>, in>>} :
       usbRx = place[1] /\ linkRx = place[2]
  /\ linkTransit = <<>>
  /\ pc = "usb"

NextMalformed == QuietUsb \/ QuietLeader \/ QuietFollower
SpecMalformed == InitMalformed /\ [][NextMalformed]_vars

(* ------------------------- any strap wiring ---------------------------- *)

Pins == {"LONG", "SMALL", "SEASHELL"}

\* a unit boots with any of the eight wirings of its strap pins, inside the
\* schedule window, and a wake and a play command arrive on its console
StrapInputs == {<<CMD_WAKEUP>>, <<CMD_PLAY>>}
InitStraps ==
  /\ \E straps \in SUBSET Pins : unit = setup(straps)
  /\ hour = START_HOUR
  /\ usbRx = <<>>
  /\ linkRx = <<>>
  /\ linkTransit = <<>>
  /\ pc = "status"

StrapUsb == LoopUsbIn(StrapInputs)
NextStraps == LoopStatus \/ StrapUsb \/ QuietLeader \/ QuietFollower \/ Tick
SpecStraps == InitStraps /\ [][NextStraps]_vars

(* ------------------ setup(): codec and SD card start ------------------- *)

\* setup() up to "Reset global state": the globals have their initial
\* values already and the assignments change nothing
setupDone(u) ==
  [u EXCEPT !.systemAwake = FALSE, !.playbackStatus = FALSE, !.trackIteration = 0]

\* the body of the codec's retry loop, of the SD card's error loop: the
\* error is printed on the console and its code is shown on the LEDs
codecError(u) == displayBinaryCode(Emit(u, "error", <<"codec">>), 13)
sdError(u) == displayBinaryCode(Emit(u, "error", <<"sd">>), 3)

\* setup() has written the pins low and is about to enable the codec; a
\* wake command may be waiting on the console
InitSetup ==
  /\ \E straps \in OneHot : unit = setup(straps)
  /\ hour = START_HOUR
  /\ usbRx \in {<<>>, <<CMD_WAKEUP>>}
  /\ linkRx = <<>>
  /\ linkTransit = <<>>
  /\ pc = "codec"

\* the retry without its loop: one failed attempt and setup() goes on
CodecEnable_once ==
  /\ pc = "codec"
  /\ \E ok \in BOOLEAN :
       /\ unit' = IF ok THEN Fresh(unit) ELSE codecError(Fresh(unit))
       /\ pc' = "sd"
  /\ UNCHANGED <<hour, usbRx, linkRx, linkTransit>>

\* while (!sgtl5000.enable()) { displayBinaryCode(13); delay(1000); }: one
\* attempt, which the hardware lets succeed or fail
CodecEnable ==
  /\ pc = "codec"
  /\ \E ok \in BOOLEAN :
       /\ unit' = IF ok THEN Fresh(unit) ELSE codecError(Fresh(unit))
       /\ pc' = IF ok THEN "sd" ELSE "codec"
  /\ UNCHANGED <<hour, usbRx, linkRx, linkTransit>>

\* if (!SD.begin(...)) while (1) ...: the one attempt at the SD card; when
\* it succeeds setup() runs to its end and loop() starts
SdBegin ==
  /\ pc = "sd"
  /\ \E ok \in BOOLEAN :
       /\ unit' = IF ok THEN setupDone(Fresh(unit)) ELSE sdError(Fresh(unit))
       /\ pc' = IF ok THEN "status" ELSE "sdError"
  /\ UNCHANGED <<hour, usbRx, linkRx, linkTransit>>

\* while (1) { displayBinaryCode(3); delay(100); }
SdError ==
  /\ pc = "sdError"
  /\ unit' = sdError(Fresh(unit))
  /\ UNCHANGED <<hour, usbRx, linkRx, linkTransit, pc>>

NextSetup ==
  CodecEnable \/ SdBegin \/ SdError \/ LoopStatus \/ QuietUsb \/ QuietLeader
  \/ QuietFollower \/ Tick
SpecSetup == InitSetup /\ [][NextSetup]_vars

(* ------------------------ the PWM output's rate ------------------------ *)

\* the time from one call of the role function to the next: the delay(5)
\* of loop() and the rest of its code, or longer
LoopMs == {5, 10, 20}

\* a follower that has been awake and playing for a minute and a half
InitPwm ==
  /\ \E straps \in FollowerStraps :
       unit = Elapse(Elapse(Elapse(Fresh([setup(straps) EXCEPT
                      !.systemAwake = TRUE, !.rel1 = TRUE, !.rel2 = TRUE,
                      !.playing = TRUE, !.playbackStatus = TRUE,
                      !.trackIteration = 1]))))
  /\ hour = START_HOUR
  /\ usbRx = <<>>
  /\ linkRx = <<>>
  /\ linkTransit = <<>>
  /\ pc = "role"

\* follower() is called, with nothing on the link and an envelope sample of
\* any level available or not, and ms milliseconds pass until its next call
FollowerCall ==
  /\ pc = "role"
  /\ \E ms \in LoopMs, sample \in Samples :
       LET env == [ub |-> "return", peakAvail |-> sample.peakAvail, peak |-> sample.peak]
       IN  unit' = ElapseBy(follower(Fresh(unit), <<>>, env).u, ms)
  /\ UNCHANGED <<hour, usbRx, linkRx, linkTransit, pc>>

NextPwm == FollowerCall
SpecPwm == InitPwm /\ [][NextPwm]_vars

(* ------ the leader with wake and sleep arriving from every side ------- *)
\* WAKEUP and SLEEP as command characters and as framed messages
AwakeInputs == {<<CMD_WAKEUP>>, <<CMD_SLEEP>>, Line(V_wakeup), Line(V_sleep)}

InitMirror ==
  /\ unit = setup({"LONG"})
  /\ hour \in EdgeHours
  /\ usbRx = <<>>
  /\ linkRx = <<>>
  /\ linkTransit = <<>>
  /\ pc = "status"

MirrorUsb == LoopUsbIn(AwakeInputs)
MirrorLeader == LoopRoleIn({0}, AwakeInputs, FALSE)
NextMirror == LoopStatus \/ MirrorUsb \/ MirrorLeader \/ Tick \/ TrackEnd \/ RtcEdge
SpecMirror == InitMirror /\ [][NextMirror]_vars

(* ------------- the volume and the PWM range under commands ------------- *)
LevelCmds == {<<CMD_VOL_UP>>, <<CMD_VOL_DOWN>>, <<CMD_PWM_UP>>, <<CMD_PWM_DOWN>>}

\* the clock is outside the active window
InitLevels ==
  /\ \E straps \in OneHot : unit = setup(straps)
  /\ hour = END_HOUR
  /\ usbRx = <<>>
  /\ linkRx = <<>>
  /\ linkTransit = <<>>
  /\ pc = "status"

LevelUsb == LoopUsbIn(LevelCmds)
NextLevels == LoopStatus \/ LevelUsb \/ QuietLeader \/ QuietFollower
SpecLevels == InitLevels /\ [][NextLevels]_vars

(* ------------- the envelope driver under a changing range -------------- *)
\* envelope samples from silence to full scale, in percent
EnvelopeLevels == {0, 1, 50, 99, 100}
RangeCmds == {<<CMD_PWM_UP>>, <<CMD_PWM_DOWN>>}

\* a follower awake and playing, at its USB check
InitEnvelope ==
  /\ \E straps \in FollowerStraps :
       unit = Elapse(Fresh([setup(straps) EXCEPT
                      !.systemAwake = TRUE, !.rel1 = TRUE, !.rel2 = TRUE,
                      !.playing = TRUE, !.playbackStatus = TRUE,
                      !.trackIteration = 1]))
  /\ hour = START_HOUR
  /\ usbRx = <<>>
  /\ linkRx = <<>>
  /\ linkTransit = <<>>
  /\ pc = "usb"

RangeUsb == LoopUsbIn(RangeCmds)
\* follower() is called with nothing on the link and a sample available,
\* and the time to the next iteration passes
EnvelopeCall ==
  /\ pc = "role"
  /\ \E p \in EnvelopeLevels :
       LET env == [ub |-> "return", peakAvail |-> TRUE, peak |-> p]
       IN  unit' = Elapse(follower(Fresh(unit), <<>>, env).u)
  /\ pc' = "usb"
  /\ UNCHANGED <<hour, usbRx, linkRx, linkTransit>>

NextEnvelope == RangeUsb \/ EnvelopeCall
SpecEnvelope == InitEnvelope /\ [][NextEnvelope]_vars

(* ------------- a follower asked for its status while it runs ----------- *)
ReportInputs == {<<CMD_WAKEUP>>, <<CMD_SLEEP>>, <<CMD_PLAY>>, <<CMD_STOP>>} \cup Queries

\* some minutes after setup()
InitReport ==
  /\ \E straps \in FollowerStraps :
       unit = Elapse(Elapse(Elapse(Fresh(setup(straps)))))
  /\ hour = START_HOUR
  /\ usbRx = <<>>
  /\ linkRx = <<>>
  /\ linkTransit = <<>>
  /\ pc = "status"

ReportFollower == LoopRoleIn({1, 2}, ReportInputs, FALSE)
\* half a second passes between two iterations of loop(): the check of the
\* link is due at the next one, statusUpdates() at every other one
ReportTick ==
  /\ pc = "status"
  /\ unit' = ElapseBy(Fresh(unit), ReportMs)
  /\ [unit' EXCEPT !.out = unit.out] # unit
  /\ UNCHANGED <<hour, usbRx, linkRx, linkTransit, pc>>

NextReport == LoopStatus \/ QuietUsb \/ ReportFollower \/ ReportTick \/ TrackEnd
SpecReport == InitReport /\ [][NextReport]_vars

(* ------------------------------- claims -------------------------------- *)
Out == unit.out
RelayKinds == {"REL_1", "REL_2"}
\* the step that has just run is the schedule step of loop()
AfterStatus == pc = "usb"
InWindow(h) == h >= START_HOUR /\ h < END_HOUR
\* statusUpdates() has evaluated the schedule in the step that has just run
Evaluated == AfterStatus /\ HasKind(unit, "eval")
EvalEvent == Out[CHOOSE i \in 1..Len(Out) : Out[i].kind = "eval"]
\* the step that has just run dispatched the command byte c
DispatchedCmd(c, awakeThen) ==
  \E i \in 1..Len(Out) :
    Out[i].kind = "cmd" /\ Out[i].val = <<c>> /\ Out[i].awake = awakeThen

\* C1: the speaker relay (REL_2) is never asserted while the amplifier relay
\* (REL_1) is deasserted: every relay write that asserts the speaker finds
\* the amplifier asserted, every write that deasserts the amplifier finds
\* the speaker deasserted, from the writes of setup() on.
C1_RelayOrdering ==
  /\ unit.rel2 => unit.rel1
  /\ \A i \in 1..Len(Out) :
       /\ (Out[i].kind = "REL_2" /\ Out[i].rel2) => Out[i].rel1
       /\ (Out[i].kind = "REL_1" /\ ~Out[i].rel1) => ~Out[i].rel2

\* a power-down has just run: speaker off, then amplifier off
C1_Witness ==
  \E i, j \in 1..Len(Out) :
    /\ i < j
    /\ Out[i].kind = "REL_2" /\ ~Out[i].rel2 /\ Out[i].rel1
    /\ Out[j].kind = "REL_1" /\ ~Out[j].rel1

\* C2: the relay sequences are idempotent: startupSequence() on an awake
\* unit and shutDownSequence() on a sleeping unit change nothing and write
\* nothing (no relay, no playback stop, no systemAwake, no trackIteration),
\* and a WAKEUP dispatched while awake, or a SLEEP dispatched while asleep,
\* is followed in its step by no relay write and no write of systemAwake or
\* trackIteration.
C2_Idempotent ==
  /\ unit.systemAwake => startupSequence(unit) = unit
  /\ ~unit.systemAwake => shutDownSequence(unit) = unit
  /\ \A i \in 1..Len(Out) :
       (/\ Out[i].kind = "cmd"
        /\ \/ Out[i].val = <<CMD_WAKEUP>> /\ Out[i].awake
           \/ Out[i].val = <<CMD_SLEEP>> /\ ~Out[i].awake)
       => \A j \in (i + 1)..Len(Out) :
            Out[j].kind \notin RelayKinds \cup {"awake", "track"}

\* a WAKEUP has just been dispatched on a unit that was awake
C2_Witness == DispatchedCmd(CMD_WAKEUP, TRUE) /\ unit.systemAwake

\* C3 as claimed: on the leader, after every schedule evaluation systemAwake
\* is true exactly when the hour is inside [START_HOUR, END_HOUR).
C3_AwakeIffInWindow ==
  (Evaluated /\ unit.PLAYER_ID = 0) => (unit.systemAwake <=> InWindow(hour))

\* C3 as amended: on the leader, after every schedule evaluation whose
\* in-window result differs from the previous one (false before the first),
\* systemAwake is true exactly when the hour is inside the window; an
\* evaluation with an unchanged result leaves systemAwake as the commands
\* dispatched since have left it.
C3_AwakeIffInWindowOnTransition ==
  (Evaluated /\ unit.PLAYER_ID = 0) =>
     IF EvalEvent.val[1] # EvalEvent.val[2]
     THEN unit.systemAwake <=> InWindow(hour)
     ELSE unit.systemAwake = EvalEvent.awake

\* an evaluation has just woken a unit that a command had not woken before
C3_Witness ==
  /\ Evaluated /\ InWindow(hour) /\ unit.systemAwake
  /\ EvalEvent.val[1] # EvalEvent.val[2] /\ ~EvalEvent.awake

\* C4 as claimed: on a schedule transition the relay sequence is complete
\* when the command is written to the link: WAKEUP finds systemAwake true
\* and the counter reset, SLEEP finds systemAwake false.
C4_SequenceBeforeBroadcast ==
  AfterStatus =>
    \A i \in 1..Len(Out) :
      /\ (Out[i].kind = "link" /\ Out[i].val = <<CMD_WAKEUP>>)
           => (Out[i].awake /\ Out[i].rel1 /\ Out[i].rel2)
      /\ (Out[i].kind = "link" /\ Out[i].val = <<CMD_SLEEP>>)
           => (~Out[i].awake /\ ~Out[i].rel1 /\ ~Out[i].rel2)

\* C4 as amended: on a schedule transition the command is written to the
\* link before the local relay sequence starts, and that sequence is
\* complete when the step ends: WAKEUP is written with both relays off and
\* systemAwake false, and the step ends awake with both relays on and the
\* counter at 0; SLEEP is written with both relays on and systemAwake true,
\* and the step ends asleep with both relays off.
C4_BroadcastBeforeSequence ==
  AfterStatus =>
    \A i \in 1..Len(Out) :
      /\ (Out[i].kind = "link" /\ Out[i].val = <<CMD_WAKEUP>>)
           => /\ ~Out[i].awake /\ ~Out[i].rel1 /\ ~Out[i].rel2
              /\ \A j \in 1..i : Out[j].kind \notin RelayKinds
              /\ unit.systemAwake /\ unit.rel1 /\ unit.rel2
              /\ unit.trackIteration = 0
      /\ (Out[i].kind = "link" /\ Out[i].val = <<CMD_SLEEP>>)
           => /\ Out[i].awake /\ Out[i].rel1 /\ Out[i].rel2
              /\ \A j \in 1..i : Out[j].kind \notin RelayKinds
              /\ ~unit.systemAwake /\ ~unit.rel1 /\ ~unit.rel2

\* the schedule has just put the unit to sleep
C4_Witness ==
  /\ Evaluated /\ ~unit.systemAwake
  /\ \E i \in 1..Len(Out) : Out[i].kind = "link" /\ Out[i].val = <<CMD_SLEEP>>

\* C5: a schedule evaluation whose in-window result equals the previous one
\* writes no relay, sends nothing on the link and leaves systemAwake,
\* trackIteration and the relays as they were.
C5_Debounced ==
  [][(/\ pc = "status" /\ pc' = "usb"
      /\ HasKind(unit', "eval")
      /\ InWindow(hour) = unit.lastActiveState)
     => /\ unit'.systemAwake = unit.systemAwake
        /\ unit'.trackIteration = unit.trackIteration
        /\ unit'.rel1 = unit.rel1 /\ unit'.rel2 = unit.rel2
        /\ \A i \in 1..Len(unit'.out) :
             unit'.out[i].kind \notin RelayKinds \cup {"link", "awake", "track", "stop"}]_vars

\* an evaluation inside the window has just left asleep a unit that a
\* command had put to sleep
C5_Witness ==
  /\ Evaluated /\ InWindow(hour) /\ ~unit.systemAwake
  /\ EvalEvent.val[1] = EvalEvent.val[2]

\* the state a follower's dispatch of a command or message leaves
PlayState(u) ==
  <<u.playing, u.trackIteration, u.playbackStatus, u.systemAwake, u.rel1, u.rel2>>
SomeEnv == [ub |-> "return", peakAvail |-> FALSE, peak |-> 0]

\* C8: the message ":play;" received by a follower on the link has the
\* effect of the command byte PLAY received in the same state: playback
\* started, trackIteration incremented, playbackStatus set.
C8_SemicolonPlay ==
  [][(/\ pc = "role" /\ pc' = "status" /\ unit.PLAYER_ID # 0
      /\ \E i \in 1..Len(unit'.out) :
           unit'.out[i].kind = "buffer" /\ unit'.out[i].val = Semi(V_play))
     => PlayState(unit') = PlayState(follower(Fresh(unit), <<CMD_PLAY>>, SomeEnv).u)]_vars

\* the step that has just run broadcast PLAY from the retry of leader() and
\* started the local playback
AutoPlayed ==
  /\ pc = "status" /\ unit.PLAYER_ID = 0 /\ unit.playing
  /\ \E i, j \in 1..Len(Out) :
       /\ i < j
       /\ Out[i].kind = "link" /\ Out[i].val = <<CMD_PLAY>>
       /\ Out[j].kind = "play"
\* the schedule step that has just run broadcast WAKEUP and woke the unit
WakeBroadcast ==
  /\ AfterStatus /\ unit.systemAwake
  /\ \E i \in 1..Len(Out) : Out[i].kind = "link" /\ Out[i].val = <<CMD_WAKEUP>>

\* C6: whenever the leader is awake and not playing (never started, track
\* ended, stopped by STOP), it eventually broadcasts PLAY and starts the
\* local playback, unless it is put to sleep first; this holds again after
\* every end of playback.
C6_RetryEventually ==
  (unit.PLAYER_ID = 0 /\ unit.systemAwake /\ ~unit.playing)
     ~> (AutoPlayed \/ ~unit.systemAwake)

\* the retry has just started the second track of this wake period
C6_Witness == AutoPlayed /\ unit.trackIteration = 2

\* C7: a unit booted with the leader strap and the clock inside the active
\* window is the leader, eventually broadcasts WAKEUP and is awake, and
\* then eventually broadcasts PLAY and plays; it becomes awake only in a
\* step that broadcasts WAKEUP, and every PLAY is broadcast by an awake
\* unit, so no automatic PLAY precedes the WAKEUP.
C7_BootScenario ==
  /\ [](unit.PLAYER_ID = 0)
  /\ <>WakeBroadcast
  /\ WakeBroadcast ~> AutoPlayed
  /\ [][(~unit.systemAwake /\ unit'.systemAwake)
         => \E i \in 1..Len(unit'.out) :
              unit'.out[i].kind = "link" /\ unit'.out[i].val = <<CMD_WAKEUP>>]_vars
  /\ [](\A i \in 1..Len(Out) :
          (Out[i].kind = "link" /\ Out[i].val = <<CMD_PLAY>>) => Out[i].awake)

\* the first automatic PLAY of a unit the schedule has woken
C7_Witness ==
  /\ AutoPlayed /\ InWindow(hour) /\ unit.trackIteration = 1
  /\ unit.lastActiveState

\* what the claim compares of two dispatches
PostState(u) ==
  <<u.systemAwake, u.rel1, u.rel2, u.playing, u.playbackStatus,
    u.trackIteration, u.audioVolume, u.rangePWM, u.led>>

\* C9: for every verb of the table and every unit state, dispatching the
\* newline-terminated message ":<verb>", from USB on any unit or from the
\* link on a follower, leaves awake, relays, playback, trackIteration,
\* volume, PWM range and LEDs as dispatching the command byte of the same
\* name from the same place in the same state leaves them.
C9_VerbsMirrorCommands ==
  [][\A v \in Verbs :
       /\ (pc = "usb" /\ usbRx = Line(v))
            => PostState(unit')
                 = PostState(checkUsbCommands(Fresh(unit), <<VerbCmd(v)>>))
       /\ (pc = "role" /\ unit.PLAYER_ID # 0 /\ linkRx = Line(v))
            => PostState(unit')
                 = PostState(follower(Fresh(unit), <<VerbCmd(v)>>, SomeEnv).u)]_vars

\* the message ":voldown" has just lowered the volume of a follower by a step
C9_Witness ==
  /\ unit.PLAYER_ID # 0 /\ pc = "status"
  /\ unit.audioVolume = subF32(VOL_INIT, VOL_STEP)
  /\ \E i, j \in 1..Len(Out) :
       /\ i < j
       /\ Out[i].kind = "msg" /\ Out[i].val = <<":">> \o V_voldown
       /\ Out[j].kind = "cmd" /\ Out[j].val = <<CMD_VOL_DOWN>>

Unterminated(stream) == \A i \in 1..Len(stream) : stream[i] \notin Terminators
Overlong(stream) ==
  /\ Len(stream) > MSG_BUFFER_SIZE - 1
  /\ Head(stream) = ":"
  /\ Unterminated(stream)
\* the step left exactly msg in the message buffer and dispatched it once
DispatchedOnce(u, msg) ==
  /\ \A i \in 1..Len(u.out) : u.out[i].kind \in {"buffer", "msg"} => u.out[i].val = msg
  /\ Cardinality({i \in 1..Len(u.out) : u.out[i].kind = "msg"}) = 1
ReadsMessage(u) == HasKind(u, "buffer")

\* What holds of the overflow handling: the write index never exceeds
\* MSG_BUFFER_SIZE - 1 on either path, and an unterminated message of more
\* than MSG_BUFFER_SIZE - 1 bytes read from USB is dispatched once as its
\* first MSG_BUFFER_SIZE - 1 bytes.
UsbTruncates ==
  [][/\ \A i \in 1..Len(unit'.out) :
          unit'.out[i].kind = "buffer" => Len(unit'.out[i].val) <= MSG_BUFFER_SIZE - 1
     /\ (pc = "usb" /\ usbRx # <<>> /\ Overlong(usbRx))
          => DispatchedOnce(unit', SubSeq(usbRx, 1, MSG_BUFFER_SIZE - 1))]_vars

\* C10: on both receive paths the write index never exceeds
\* MSG_BUFFER_SIZE - 1, and when a unit reads an unterminated message of
\* more than MSG_BUFFER_SIZE - 1 bytes the buffer holds its first
\* MSG_BUFFER_SIZE - 1 bytes and processMessage is invoked once on them.
C10_OverflowSafe ==
  [][/\ \A i \in 1..Len(unit'.out) :
          unit'.out[i].kind = "buffer" => Len(unit'.out[i].val) <= MSG_BUFFER_SIZE - 1
     /\ (pc = "usb" /\ usbRx # <<>> /\ Overlong(usbRx))
          => DispatchedOnce(unit', SubSeq(usbRx, 1, MSG_BUFFER_SIZE - 1))
     /\ (pc = "role" /\ linkRx \o linkTransit # <<>>
           /\ Overlong(linkRx \o linkTransit) /\ ReadsMessage(unit'))
          => DispatchedOnce(unit', SubSeq(linkRx \o linkTransit, 1, MSG_BUFFER_SIZE - 1))]_vars

\* the transmission a step finds on the link: what Serial3 holds and what
\* is still on its way
InFlight == linkRx \o linkTransit
\* the string the read loop leaves when the whole transmission is there
WholeMessage(stream) == readMessage(<<":">>, Tail(stream)).buf

MsgEvents(u) == {i \in 1..Len(u.out) : u.out[i].kind = "msg"}
CmdEvents(u) == {i \in 1..Len(u.out) : u.out[i].kind = "cmd"}

\* C12: a follower cycle whose check of the link is due dispatches one
\* thing at most: with ':' first one message, accumulated to its terminator
\* (and the command of its verb, if it has one); otherwise the first byte as
\* a command; every other byte Serial3 holds then is discarded undispatched.
\* A cycle whose check is not due dispatches and discards nothing.
C12_OneDispatchPerCycle ==
  [][(pc = "role" /\ unit.PLAYER_ID # 0 /\ linkRx # <<>> /\ linkTransit = <<>>)
     => IF unit.commandCheckTimer >= SERIAL_CHECK_PERIOD
        THEN /\ linkRx' = <<>>
             /\ IF Head(linkRx) = ":"
                THEN /\ Cardinality(MsgEvents(unit')) = 1
                     /\ Cardinality(CmdEvents(unit')) <= 1
                     /\ \A i \in MsgEvents(unit') :
                          /\ unit'.out[i].val = WholeMessage(linkRx)
                          /\ \A j \in CmdEvents(unit') : i < j
                ELSE /\ MsgEvents(unit') = {}
                     /\ Cardinality(CmdEvents(unit')) = 1
                     /\ \A j \in CmdEvents(unit') : unit'.out[j].val = <<Head(linkRx)>>
        ELSE /\ linkRx' = linkRx
             /\ MsgEvents(unit') = {} /\ CmdEvents(unit') = {}]_vars

\* of WAKEUP and PLAY received together, WAKEUP has just been dispatched
\* and PLAY discarded
C12_Witness ==
  /\ unit.PLAYER_ID # 0 /\ pc = "status" /\ linkRx = <<>>
  /\ DispatchedCmd(CMD_WAKEUP, FALSE) /\ unit.systemAwake
  /\ MsgEvents(unit) = {} /\ ~HasKind(unit, "play") /\ unit.trackIteration = 0

\* what a step has written to the inter-unit link, in order
LinkEvents(u) == {i \in 1..Len(u.out) : u.out[i].kind = "link"}
RECURSIVE LinkBytesFrom(_, _)
LinkBytesFrom(u, i) ==
  IF i > Len(u.out) THEN <<>>
  ELSE (IF u.out[i].kind = "link" THEN u.out[i].val ELSE <<>>) \o LinkBytesFrom(u, i + 1)
LinkBytes(u) == LinkBytesFrom(u, 1)
\* a framed message as it was typed: up to its terminator, terminator included
Frame(stream) ==
  LET ends == {i \in 1..Len(stream) : stream[i] \in Terminators} IN
  IF ends = {} THEN stream
  ELSE SubSeq(stream, 1, CHOOSE i \in ends : \A j \in ends : i <= j)
\* the messages and commands a unit dispatches in a step, in order
Dispatches(u) ==
  LET idx == {i \in 1..Len(u.out) : u.out[i].kind \in {"msg", "cmd"}} IN
  {<<u.out[i].kind, u.out[i].val>> : i \in idx}
\* a follower that finds bytes in Serial3 when its check is due
FollowerOn(bytes) == follower(Elapse(Fresh(setup({"SMALL"}))), bytes, SomeEnv).u

\* C13: the leader repeats its console input: a command character read
\* from USB and processed is written to the link once, and a framed USB
\* message is written to the link as it was received, so that a follower
\* that finds these bytes dispatches what the leader dispatched.
C13_LeaderRepeats ==
  [][(pc = "usb" /\ unit.PLAYER_ID = 0 /\ usbRx # <<>>)
     => IF Head(usbRx) = ":"
        THEN /\ LinkBytes(unit') = Frame(usbRx)
             /\ Dispatches(FollowerOn(LinkBytes(unit'))) = Dispatches(unit')
        ELSE Printable(Head(usbRx)) => LinkBytes(unit') = <<Head(usbRx)>>]_vars

\* What holds of the relay: a framed USB message is written to the link as
\* the read loop left it in the buffer, without its newline or carriage
\* return, and a follower that finds exactly these bytes at its check
\* dispatches what the leader dispatched.
RepeatsBuffer ==
  [][(pc = "usb" /\ unit.PLAYER_ID = 0 /\ usbRx # <<>>)
     => IF Head(usbRx) = ":"
        THEN /\ LinkBytes(unit') = WholeMessage(usbRx)
             /\ Dispatches(FollowerOn(LinkBytes(unit'))) = Dispatches(unit')
        ELSE Printable(Head(usbRx)) => LinkBytes(unit') = <<Head(usbRx)>>]_vars

\* the message is a status report
IsStatus(msg) == msg # <<>> /\ Head(msg) = ":" /\ HasPrefix(Tail(msg), STATUS_PREFIX)

\* C14: the leader never re-transmits a STATUS message it has received on
\* the link: in the step that dispatches it, nothing is written to Serial3
\* from the dispatch on.
C14_StatusNotRepeated ==
  (pc = "status" /\ unit.PLAYER_ID = 0) =>
    \A i \in MsgEvents(unit) :
      IsStatus(Out[i].val) => \A j \in LinkEvents(unit) : j < i

\* the leader has just dispatched the status report of a follower
C14_Witness ==
  /\ pc = "status" /\ unit.PLAYER_ID = 0
  /\ \E i \in MsgEvents(unit) : IsStatus(Out[i].val) /\ Len(Out[i].val) > 8

\* the status request that names the unit itself
OwnRequest(u) ==
  Line(IF u.PLAYER_ID = 1 THEN MSG_REQUEST_SMALL ELSE MSG_REQUEST_SEASHELL)

\* C15 as claimed: handling a USB command byte or a USB framed message on
\* a follower writes nothing to the inter-unit link.
C15_FollowerUsbSilent ==
  [][(pc = "usb" /\ unit.PLAYER_ID # 0) => LinkBytes(unit') = <<>>]_vars

\* C15 as amended: a follower passes no USB command byte and no USB message
\* on: handling one writes nothing to the link, except that the status
\* request naming the follower itself makes it send its own STATUS report,
\* and nothing else, to the leader.
C15_FollowerUsbNotPassedOn ==
  [][(pc = "usb" /\ unit.PLAYER_ID # 0)
     => LinkBytes(unit') = IF usbRx = OwnRequest(unit)
                           THEN statusMsg(unit) \o <<"\r", "\n">>
                           ELSE <<>>]_vars

\* a follower has just started playback on a USB command and sent nothing
C15_Witness ==
  /\ pc = "role" /\ unit.PLAYER_ID # 0 /\ LinkEvents(unit) = {}
  /\ CmdEvents(unit) # {} /\ HasKind(unit, "play")

\* the follower a status request names
Named(query) == IF query = Line(MSG_REQUEST_SMALL) THEN 1 ELSE 2
\* what the dispatch of a status request does on a unit: the follower it
\* names sends its report and keeps its receiver open, the other follower
\* sends nothing and closes its receiver, the leader sends nothing
Arbitrated(before, after, query) ==
  IF before.PLAYER_ID = Named(query)
  THEN LinkBytes(after) = statusMsg(before) \o <<"\r", "\n">> /\ ~HasKind(after, "rxoff")
  ELSE IF before.PLAYER_ID # 0
       THEN LinkBytes(after) = <<>> /\ HasKind(after, "rxoff")
       ELSE \A i \in LinkEvents(after) : ~IsStatus(after.out[i].val)

\* C16: for a status request broadcast by the leader, only the follower it
\* names sends a STATUS report; the other follower sends nothing and has its
\* receiver closed while the report is sent; the leader never sends a
\* STATUS.  A unit that starts reading the request from the link does its
\* part, whether the request has arrived whole or not.
C16_QueryArbitration ==
  [][/\ (pc = "role" /\ InFlight \in Queries /\ ReadsMessage(unit'))
          => Arbitrated(unit, unit', InFlight)
     /\ unit.PLAYER_ID = 0
          => \A i \in LinkEvents(unit') : ~IsStatus(unit'.out[i].val)]_vars

\* What holds of the arbitration: a unit that finds the whole request at
\* its check, on the link or on USB, does its part, and the leader never
\* sends a STATUS.
WholeQueryArbitration ==
  [][/\ (pc = "role" /\ linkRx \in Queries) => Arbitrated(unit, unit', linkRx)
     /\ unit.PLAYER_ID = 0
          => \A i \in LinkEvents(unit') : ~IsStatus(unit'.out[i].val)]_vars

\* the reports printed in the last step
StatusEvents(u) == {i \in 1..Len(u.out) : u.out[i].kind = "status"}
\* what the six values of a report are to parse to
Parsed(f) ==
  [fields |-> 6, followerId |-> f.id, followerTemp |-> f.temp,
   followerAwake |-> (f.awake = 1), followerPlaying |-> (f.playing = 1),
   followerPosition |-> f.pos, followerLength |-> f.len]
\* the values a follower puts in its own report
Reported(u) ==
  [id |-> u.PLAYER_ID, temp |-> 235,
   awake |-> IF u.systemAwake THEN 1 ELSE 0,
   playing |-> IF u.playbackStatus THEN 1 ELSE 0,
   pos |-> IF u.playing THEN 5 ELSE 0, len |-> IF u.playing THEN 9 ELSE 0]
\* the spec's example
ExampleStatus ==
  <<"S", "T", "A", "T", "U", "S", "|", "2", "|", "2", "3", ".", "5", "|",
    "1", "|", "0", "|", "0", "|", "0">>

\* C17: a STATUS message is split on '|' field by field in the order id,
\* temp, awake, playing, posMs, lenMs; awake and playing are true exactly
\* when the field is the integer 1; 'STATUS|2|23.5|1|0|0|0' gives id 2,
\* temp 23.5, awake, not playing; and the report that sendStatusToLeader
\* writes parses back to the values of the follower that wrote it.
C17_StatusParsing ==
  [][/\ pc = "role"
        => \A f \in StatusFields :
             linkRx = FormatStatus(f)
               => /\ StatusEvents(unit') # {}
                  /\ \A i \in StatusEvents(unit') : unit'.out[i].val = <<Parsed(f)>>
     /\ \A i \in LinkEvents(unit') :
          IsStatus(unit'.out[i].val)
            => parseStatus(Tail(readMessage(<<>>, unit'.out[i].val).buf))
                 = Parsed(Reported(unit))
     /\ parseStatus(ExampleStatus)
          = [fields |-> 6, followerId |-> 2, followerTemp |-> 235,
             followerAwake |-> TRUE, followerPlaying |-> FALSE,
             followerPosition |-> 0, followerLength |-> 0]]_vars
\* a report with a flag field of 1 and one of another non-zero integer has
\* been parsed
C17_Witness ==
  /\ pc = "status" /\ unit.PLAYER_ID = 0
  /\ \E i \in StatusEvents(unit) :
       /\ unit.out[i].val[1].followerAwake
       /\ ~unit.out[i].val[1].followerPlaying
       /\ unit.out[i].val[1].followerId = 2
  /\ \E i \in MsgEvents(unit) :
       unit.out[i].val \o <<"\r", "\n">>
         = FormatStatus([id |-> 2, temp |-> 400, awake |-> 1,
                         playing |-> 10, pos |-> 5, len |-> 9])

\* the state that C18 is about
ControlState(u) ==
  <<u.systemAwake, u.rel1, u.rel2, u.playing, u.playbackStatus,
    u.trackIteration, u.audioVolume, u.rangePWM>>
\* the unit after an iteration's role function found nothing on Serial3
QuietRole(u) ==
  IF u.PLAYER_ID = 0 THEN leader(Fresh(u), <<>>, SomeEnv).u
  ELSE follower(Fresh(u), <<>>, SomeEnv).u

\* C18: a command byte outside the alphabet, a message with an unknown
\* verb, an empty message and a short or malformed STATUS message change
\* nothing: the step that dispatches one, from USB or from the link, leaves
\* systemAwake, both relays, playback, trackIteration, audioVolume and
\* rangePWM as the same step leaves them when nothing has arrived.
C18_MalformedIgnored ==
  [][/\ (pc = "usb" /\ usbRx \in MalformedInputs)
          => ControlState(unit') = ControlState(unit)
     /\ (pc = "role" /\ linkRx \in MalformedInputs)
          => ControlState(unit') = ControlState(QuietRole(unit))]_vars
\* a malformed STATUS message with a verb in a surplus field has been
\* dispatched on a unit that is awake and playing, and it still is
C18_Witness ==
  /\ pc = "status" /\ unit.systemAwake /\ unit.playing /\ unit.rel1 /\ unit.rel2
  /\ \E i \in MsgEvents(unit) :
       \E j \in 1..Len(unit.out[i].val) : unit.out[i].val[j] = "w"
  /\ StatusEvents(unit) # {}

\* the role and the file each strap pin stands for
RoleTable ==
  {[pin |-> "LONG", id |-> 0, file |-> "LONG.WAV"],
   [pin |-> "SMALL", id |-> 1, file |-> "SMALL.WAV"],
   [pin |-> "SEASHELL", id |-> 2, file |-> "SEASHELL.WAV"]}

\* C19: a unit with exactly one strap pin high has the role and the file
\* name of that pin (LONG 0 / LONG.WAV, SMALL 1 / SMALL.WAV, SEASHELL 2 /
\* SEASHELL.WAV) from boot on: no command, message or schedule event
\* changes PLAYER_ID or FILE_NAME.
C19_RoleBound ==
  \A r \in RoleTable :
    unit.straps = {r.pin} => unit.PLAYER_ID = r.id /\ unit.FILE_NAME = r.file
\* a SEASHELL unit that was woken and has played its file
C19_Witness ==
  /\ unit.straps = {"SEASHELL"} /\ unit.PLAYER_ID = 2
  /\ unit.systemAwake /\ unit.playing /\ unit.trackIteration >= 1
  /\ pc = "status"

\* C20: a unit with no strap pin high, or with more than one, adopts no
\* role and never enters the control loop: it takes no step of loop().
C20_AmbiguityFatal ==
  [][unit.straps \notin OneHot => pc' = pc]_vars

\* the LEDs show the 4-bit code
Shows(u, code) == u.led = displayBinaryCode(u, code).led
\* the unit is in the error-indicator loop of the codec, of the SD card
CodecLoop == pc = "codec" /\ Shows(unit, 13)
SdLoop == pc = "sdError" /\ Shows(unit, 3)
\* a step in which the unit stays in setup(), with both relays low and
\* nothing dispatched
HeldInSetup ==
  /\ ~unit'.rel1 /\ ~unit'.rel2 /\ ~unit'.systemAwake
  /\ CmdEvents(unit') = {} /\ MsgEvents(unit') = {} /\ ~HasKind(unit', "play")
  /\ usbRx' = usbRx /\ linkRx' = linkRx

\* a step of setup() that reports an error shows its code and enters or
\* stays in the loop of that error
FailureHalts ==
  /\ (pc = "codec" /\ HasKind(unit', "error")) => (pc' = "codec" /\ Shows(unit', 13))
  /\ (pc = "sd" /\ HasKind(unit', "error")) => (pc' = "sdError" /\ Shows(unit', 3))

WholeSequence(o, i) ==
  /\ i >= 1 /\ i + 2 <= Len(o)
  /\ \/ /\ o[i].kind = "REL_1" /\ o[i].rel1 /\ ~o[i].awake
        /\ o[i + 1].kind = "REL_2" /\ o[i + 1].rel1 /\ o[i + 1].rel2 /\ ~o[i + 1].awake
        /\ o[i + 2].kind = "awake" /\ o[i + 2].awake
     \/ /\ o[i].kind = "REL_2" /\ ~o[i].rel2 /\ o[i].awake
        /\ o[i + 1].kind = "REL_1" /\ ~o[i + 1].rel1 /\ ~o[i + 1].rel2 /\ o[i + 1].awake
        /\ o[i + 2].kind = "awake" /\ ~o[i + 2].awake

\* C22: a relay sequence completes once invoked: in every iteration of the
\* loop, each relay write and each update of systemAwake is part of one
\* uninterrupted run of events, first relay write, second relay write,
\* update of systemAwake, with no command or message dispatched, no
\* schedule evaluation and no other relay write in between.
C22_SequenceCompletes ==
  [][\A k \in 1..Len(unit'.out) :
       unit'.out[k].kind \in {"REL_1", "REL_2", "awake"}
         => \E i \in {k - 2, k - 1, k} : WholeSequence(unit'.out, i)]_vars
\* a unit whose player was running has been woken by a command: the
\* sequence ran whole after the dispatch
C22_Witness ==
  /\ unit.systemAwake /\ unit.playing
  /\ \E i \in 2..Len(unit.out) :
       /\ unit.out[i - 1].kind = "cmd" /\ unit.out[i - 1].val = <<CMD_WAKEUP>>
       /\ WholeSequence(unit.out, i)

\* C23: awake gates playback: the audio engine's play is never called, and
\* trackIteration never incremented, while systemAwake is false; a PLAY or
\* REPLAY command or message dispatched on a sleeping unit starts nothing.
C23_AwakeGatesPlayback ==
  \A i \in 1..Len(unit.out) :
    (unit.out[i].kind = "play" \/ (unit.out[i].kind = "track" /\ unit.out[i].track > 0))
      => unit.out[i].awake

\* a WAKEUP or SLEEP command was dispatched in the step that led to u
\* (the messages 'wakeup' and 'sleep' dispatch the command of their name)
WakeOrSleepDispatched(u) ==
  \E i \in CmdEvents(u) : u.out[i].val \in {<<CMD_WAKEUP>>, <<CMD_SLEEP>>}

\* C24: a follower never originates an awake/asleep transition: on a unit
\* with PLAYER_ID != 0, systemAwake and the relays change only in a step
\* that dispatches a received WAKEUP or SLEEP; the periodic schedule check
\* and the passage of time never change them.
C24_FollowerNeverOriginates ==
  [][unit.PLAYER_ID # 0
       => /\ (<<unit'.systemAwake, unit'.rel1, unit'.rel2>>
                # <<unit.systemAwake, unit.rel1, unit.rel2>>)
               => (pc \in {"usb", "role"} /\ WakeOrSleepDispatched(unit'))
          /\ pc = "status"
               => <<unit'.systemAwake, unit'.rel1, unit'.rel2>>
                    = <<unit.systemAwake, unit.rel1, unit.rel2>>]_vars
\* a follower has passed its status update more than a check interval
\* after boot, inside the schedule window, and is still asleep
C24_Witness ==
  /\ unit.PLAYER_ID # 0 /\ pc = "usb" /\ unit.statusTimer = 0
  /\ unit.sinceCheck > CHECK_INTERVAL
  /\ hour >= START_HOUR /\ hour < END_HOUR
  /\ ~unit.systemAwake /\ ~unit.rel1 /\ ~unit.rel2

\* the count after the events of o from index i on, when it was n before
\* them: a wake transition makes it 0, a playback start adds 1
RECURSIVE CountFrom(_, _, _)
CountFrom(o, i, n) ==
  IF i > Len(o) THEN n
  ELSE CountFrom(o, i + 1,
         IF o[i].kind = "awake" /\ o[i].awake THEN 0
         ELSE IF o[i].kind = "play" THEN n + 1 ELSE n)

\* C25: trackIteration is 0 at boot and after every asleep->awake
\* transition, grows by exactly 1 with every playback start and is changed
\* by nothing else: after every step it is the count of the playback
\* starts since the most recent wake transition.
C25_TrackIterationCounts ==
  /\ unit.trackIteration = 0
  /\ [][unit'.trackIteration = CountFrom(unit'.out, 1, unit.trackIteration)]_vars
\* a wake transition has reset a counter that had counted a start
C25_Witness ==
  /\ unit.trackIteration = 0 /\ unit.systemAwake
  /\ \E i \in 1..Len(unit.out) :
       unit.out[i].kind = "awake" /\ unit.out[i].awake /\ unit.out[i].track >= 1

\* C26: PWM rate limiting: whatever the rate at which envelope samples
\* become available and however often writeOutPWM() is called, an
\* envelope-driven write of the PWM output comes at least pwmFreq
\* milliseconds after the one before it.
C26_PwmRateLimited ==
  [][HasKind(unit', "pwm") => unit.sincePwm >= PWM_FREQ]_vars
\* the display block has run less than pwmFreq milliseconds after a write
\* and has written nothing
C26_Witness ==
  /\ unit.playing /\ unit.systemAwake
  /\ unit.sincePwm > 0 /\ unit.sincePwm < PWM_FREQ /\ unit.pwmTimer = unit.sincePwm
  /\ unit.updateTimer < UPDATE_RATE /\ ~HasKind(unit, "pwm")

\* the step is a call of the role function in which the display block runs
DisplayTick == pc = "role" /\ unit.updateTimer >= UPDATE_RATE

\* C27: after every tick of the display block of leader() or follower() at
\* which the unit is asleep or not playing, the PWM output is 0, and if the
\* unit is asleep at the tick, playback is stopped by its end.
C27_PwmForcedToZero ==
  [][DisplayTick
       => /\ (~unit'.systemAwake \/ ~unit'.playing) => unit'.pwmOut = 0
          /\ ~unit'.systemAwake => ~unit'.playing]_vars
\* a tick has stopped a player that ran on a sleeping unit
C27_Witness ==
  /\ pc = "status" /\ unit.updateTimer = 0
  /\ ~unit.systemAwake /\ ~unit.playing /\ unit.pwmOut = 0
  /\ HasKind(unit, "stop") /\ CmdEvents(unit) = {} /\ unit.trackIteration >= 1

\* LED_1 .. LED_4 with only the n-th on
OnlyLed(n) == [i \in 1..4 |-> i = n]

\* C28: after every tick of the display block the four LEDs show, LED_1
\* being the most significant bit, code 1 (only LED_4 on) if the unit is
\* asleep, code 2 (only LED_3 on) if it is awake and not playing, code 8
\* (only LED_1 on) if it is awake and playing, whatever they showed before
\* and whatever LED command was applied before the tick.
C28_LedsShowState ==
  [][DisplayTick
       => unit'.led = IF ~unit'.systemAwake THEN OnlyLed(4)
                      ELSE IF ~unit'.playing THEN OnlyLed(3)
                      ELSE OnlyLed(1)]_vars
\* a follower that is awake and playing has dispatched the LED_4 command
\* and its display block has run after it
C28_Witness ==
  /\ pc = "status" /\ unit.PLAYER_ID # 0 /\ unit.updateTimer = 0
  /\ unit.systemAwake /\ unit.playing /\ unit.led = OnlyLed(1)
  /\ \E i \in CmdEvents(unit) : unit.out[i].val = <<CMD_LED_4>>


\* the step that has just run transmitted WAKEUP or SLEEP on the link
AwakeAsserted ==
  \E i \in LinkEvents(unit) : unit.out[i].val \in {<<CMD_WAKEUP>>, <<CMD_SLEEP>>}

\* C29: a follower changes its awake state on nothing but what the link
\* delivers, so a lost WAKEUP or SLEEP is repaired only by a later one:
\* whenever the leader has passed a step without sending its awake state,
\* it eventually sends WAKEUP or SLEEP again, with the clock staying on one
\* side of the schedule and nothing arriving on USB.
C29_StateReasserted ==
  (unit.PLAYER_ID = 0 /\ ~AwakeAsserted) ~> AwakeAsserted


\* the step of u has written to the link the command or the message that
\* brings a follower to u's awake state
Mirrored(u) ==
  LET cmd == IF u.systemAwake THEN CMD_WAKEUP ELSE CMD_SLEEP
      verb == IF u.systemAwake THEN V_wakeup ELSE V_sleep
  IN  \E i \in LinkEvents(u) :
        \/ u.out[i].val = <<cmd>>
        \/ /\ u.out[i].val # <<>> /\ Head(u.out[i].val) = ":"
           /\ HasPrefix(Tail(u.out[i].val), verb)

\* C30: every step of the control loop that changes the leader's
\* systemAwake, in the schedule check, the USB check or the link check,
\* writes the corresponding WAKEUP or SLEEP command, or 'wakeup' or 'sleep'
\* message, to the inter-unit link.
C30_AwakeMirrored ==
  [][(unit.PLAYER_ID = 0 /\ unit'.systemAwake # unit.systemAwake)
       => Mirrored(unit')]_vars

\* the same of the changes made by the schedule check and the USB check
MirroredOffLink ==
  [][(unit.PLAYER_ID = 0 /\ pc # "role" /\ unit'.systemAwake # unit.systemAwake)
       => Mirrored(unit')]_vars


\* the indices of the PLAY broadcasts and of the playback starts of a step
PlaySent(u) == {i \in LinkEvents(u) : u.out[i].val = <<CMD_PLAY>>}
Starts(u) == {i \in 1..Len(u.out) : u.out[i].kind = "track"}

\* C31: a call of leader() broadcasts PLAY only when the unit was awake,
\* its player was not playing and playbackTimer had reached RETRY_INTERVAL;
\* it then broadcasts once, restarts playbackTimer, and starts the local
\* playback once, trackIteration rising by one; playbackTimer, which only
\* the elapsing time advances, restarts at no other place, so that two
\* automatic broadcasts are RETRY_INTERVAL apart at least.
C31_AutoPlayPaced ==
  [][unit.PLAYER_ID = 0 =>
       /\ (pc = "role" /\ PlaySent(unit') # {})
            => /\ unit.systemAwake /\ ~unit.playing
               /\ unit.playbackTimer >= RETRY_INTERVAL
               /\ unit'.playbackTimer = 0
               /\ Cardinality(PlaySent(unit')) = 1
               /\ Cardinality(Starts(unit')) = 1
               /\ \A i \in PlaySent(unit'), j \in Starts(unit') : i < j
               /\ unit'.trackIteration = unit.trackIteration + 1
               /\ unit'.playing
       /\ unit'.playbackTimer < unit.playbackTimer
            => pc = "role" /\ PlaySent(unit') # {}]_vars

\* the leader has just retried, after the track it had started has ended
C31_Witness ==
  /\ pc = "status" /\ unit.PLAYER_ID = 0 /\ PlaySent(unit) # {}
  /\ unit.playbackTimer = 0 /\ unit.trackIteration = MaxTrack
  /\ unit.systemAwake /\ unit.playing


\* the step of u has dispatched the command c
Dispatched(u, c) == \E i \in CmdEvents(u) : u.out[i].val = <<c>>
\* the last thing the step of u did to the player was to start it
StartedLast(u) ==
  \E i \in 1..Len(u.out) :
    /\ u.out[i].kind = "play"
    /\ \A j \in (i + 1)..Len(u.out) : u.out[j].kind # "stop"
\* C32: the loop polls the player: a step that starts the playback returns
\* with the player still playing, and a later step that dispatches STOP, or
\* SLEEP on an awake unit, while the player is playing returns with the
\* player stopped, SLEEP also with the unit asleep and both relays off.
C32_LoopPolls ==
     [][/\ StartedLast(unit') => unit'.playing
        /\ (unit.playing /\ Dispatched(unit', CMD_STOP)) => ~unit'.playing
        /\ (unit.playing /\ unit.systemAwake /\ Dispatched(unit', CMD_SLEEP))
             => /\ ~unit'.playing /\ ~unit'.systemAwake
                /\ ~unit'.rel1 /\ ~unit'.rel2]_vars

\* STOP has just been dispatched on a unit whose player was playing the
\* track it had started in an earlier step
C32_Witness ==
  /\ Dispatched(unit, CMD_STOP) /\ HasKind(unit, "stop")
  /\ ~HasKind(unit, "play") /\ ~unit.playing
  /\ unit.playbackStatus /\ unit.trackIteration = 1 /\ unit.systemAwake


\* audioVolume within [0.0, 1.0] and rangePWM within [0, 255]
LevelsInRange(u) ==
  /\ u.audioVolume >= 0 /\ u.audioVolume <= VOL_MAX
  /\ u.rangePWM >= 0 /\ u.rangePWM <= PWM_FULL
\* what a PWM_UP or PWM_DOWN step does to rangePWM
PwmStepped ==
  /\ Dispatched(unit', CMD_PWM_UP)
       => \/ unit'.rangePWM = unit.rangePWM + PWM_STEP
          \/ unit'.rangePWM = PWM_FULL /\ unit.rangePWM + PWM_STEP > PWM_FULL
  /\ Dispatched(unit', CMD_PWM_DOWN)
       => \/ unit'.rangePWM = unit.rangePWM - PWM_STEP
          \/ unit'.rangePWM = 0 /\ unit.rangePWM - PWM_STEP < 0
\* d is a tenth of 1.0 to within a tenth of tol
IsTenth(d, tol) ==
  /\ d >= 0 /\ d <= VOL_MAX \div 5
  /\ 10 * d - F32_ONE <= tol /\ F32_ONE - 10 * d <= tol
\* what a VOL_UP or VOL_DOWN step does to audioVolume, to within tol
VolStepped(tol) ==
  /\ Dispatched(unit', CMD_VOL_UP)
       => \/ IsTenth(unit'.audioVolume - unit.audioVolume, tol)
          \/ unit'.audioVolume = VOL_MAX
  /\ Dispatched(unit', CMD_VOL_DOWN)
       => \/ IsTenth(unit.audioVolume - unit'.audioVolume, tol)
          \/ unit'.audioVolume = 0

C34_PwmValueInRange ==
  [][HasKind(unit', "pwm")
       => /\ \E p \in EnvelopeLevels : unit'.pwmOut = (p * unit.rangePWM) \div 100
          /\ unit'.pwmOut >= 0 /\ unit'.pwmOut <= unit.rangePWM
          /\ unit'.pwmOut <= PWM_FULL]_vars

\* a sample just short of full scale has been written under a range that
\* five PWM_DOWN have brought to 130
C34_Witness ==
  /\ HasKind(unit, "pwm")
  /\ unit.rangePWM = PWM_FULL - 5 * PWM_STEP
  /\ unit.pwmOut = (99 * unit.rangePWM) \div 100


\* the step of u has stopped the player and then started it
StoppedThenStarted(u) ==
  \E i, j \in 1..Len(u.out) :
    i < j /\ u.out[i].kind = "stop" /\ u.out[j].kind = "play"

\* C35: dispatching REPLAY, from USB on any unit or from the link on a
\* follower, leaves awake, relays, playback, trackIteration, volume, PWM
\* range and LEDs as dispatching PLAY there right after a STOP leaves them:
\* the player is stopped, then started, and trackIteration rises by one; a
\* follower that dispatches REPLAY writes nothing to the link.
C35_ReplayIsStopPlay ==
  [][/\ (pc = "usb" /\ usbRx = <<CMD_REPLAY>>)
          => PostState(unit')
               = PostState(checkUsbCommands(
                             processCommand(Fresh(unit), CMD_STOP), <<CMD_PLAY>>))
     /\ (pc = "role" /\ unit.PLAYER_ID # 0 /\ linkRx = <<CMD_REPLAY>>)
          => PostState(unit')
               = PostState(follower(processCommand(Fresh(unit), CMD_STOP),
                                    <<CMD_PLAY>>, SomeEnv).u)
     /\ Dispatched(unit', CMD_REPLAY)
          => /\ StoppedThenStarted(unit')
             /\ unit'.trackIteration = unit.trackIteration + 1
             /\ unit.PLAYER_ID # 0 => LinkEvents(unit') = {}]_vars

\* a follower whose player was playing has just dispatched REPLAY from the
\* link and plays again
C35_Witness ==
  /\ unit.PLAYER_ID # 0 /\ pc = "status" /\ Dispatched(unit, CMD_REPLAY)
  /\ StoppedThenStarted(unit) /\ unit.playing /\ unit.systemAwake
  /\ \E i \in 1..Len(unit.out) : unit.out[i].kind = "stop" /\ unit.out[i].track >= 1


LedCmd(n) == CASE n = 1 -> CMD_LED_1 [] n = 2 -> CMD_LED_2
               [] n = 3 -> CMD_LED_3 [] n = 4 -> CMD_LED_4
\* what an LED command leaves alone
LedFrame(u) ==
  <<u.systemAwake, u.rel1, u.rel2, u.playing, u.playbackStatus,
    u.trackIteration, u.audioVolume, u.rangePWM>>

\* C36: the command LED_n, dispatched by the USB check of any unit, gives
\* LED n the negation of its level and leaves the other three LEDs,
\* systemAwake, the relays, the playback, the volume and rangePWM as they
\* were; dispatched a second time right after, it restores the pattern.
C36_LedToggles ==
  [][\A n \in 1..4 :
       (pc = "usb" /\ usbRx = <<LedCmd(n)>>)
         => /\ unit'.led = [unit.led EXCEPT ![n] = ~@]
            /\ LedFrame(unit') = LedFrame(unit)
            /\ processCommand(unit', LedCmd(n)).led = unit.led]_vars

\* LED_1 has just switched off the LED that was on, on a playing unit
C36_Witness ==
  /\ pc = "role" /\ Dispatched(unit, CMD_LED_1)
  /\ unit.led = <<FALSE, FALSE, FALSE, FALSE>>
  /\ unit.playing /\ unit.systemAwake


\* C37: between the steps of the control loop, from boot on, the amplifier
\* relay and the speaker relay are both asserted when systemAwake is true
\* and both deasserted when it is false.
C37_RelaysFollowAwake ==
  /\ unit.rel1 = unit.systemAwake
  /\ unit.rel2 = unit.systemAwake

\* the shutdown sequence has just dropped both relays of a unit that had
\* played while it was awake
C37_Witness ==
  /\ ~unit.systemAwake /\ ~unit.rel1 /\ ~unit.rel2
  /\ unit.playbackStatus
  /\ \E i, j \in 1..Len(unit.out) :
       /\ i < j
       /\ unit.out[i].kind = "REL_2" /\ unit.out[j].kind = "REL_1"
       /\ ~unit.out[j].rel1 /\ ~unit.out[j].rel2


\* C38: when framed messages are all that arrives on the link, however
\* their bytes are split across the polls of the receiver, processCommand
\* is called by processMessage only, never on a byte read from the link.
C38_NoByteAsCommand ==
  [][pc = "role" =>
       \A j \in CmdEvents(unit') : \E i \in MsgEvents(unit') : i < j]_vars


\* C39: whatever the leader finds on Serial3, command bytes, STATUS reports
\* or other framed messages, its call of leader() leaves systemAwake, the
\* relays, the playback, trackIteration, audioVolume and rangePWM as the
\* same call leaves them when Serial3 is empty.
C39_LinkInertOnLeader ==
  [][(pc = "role" /\ unit.PLAYER_ID = 0)
       => ControlState(unit') = ControlState(QuietRole(unit))]_vars


\* C40: the 'playing' field of the STATUS report a follower sends is what
\* the player is doing when the report is built: the report is the one the
\* unit would send with playbackStatus equal to wavPlayer.isPlaying().
C40_ReportedPlayingIsActual ==
  [][(pc = "role" /\ unit.PLAYER_ID # 0)
       => \A i \in LinkEvents(unit') :
            unit'.out[i].val
              = statusMsg([unit EXCEPT !.playbackStatus = unit.playing])
                  \o <<"\r", "\n">>]_vars

====
